---- MODULE Spec2Model ----
(***************************************************************************)
(* Model of the plotting engine of gp (src/src/plot.c): the chunked ring   *)
(* store of a dataset, the per-chunk range cache, the axis / figure model  *)
(* with slave axes and derived-column slots, and the progressive draw      *)
(* engine with its sketch lists.                                           *)
(***************************************************************************)
EXTENDS Integers, Sequences, FiniteSets, TLC

VARIABLES
    data,                   \* pl->data[dN]
    rcache,                 \* pl->rcache[N]
    rcache_ID,              \* pl->rcache_ID
    rcache_wipe_data_N,     \* pl->rcache_wipe_data_N
    rcache_wipe_chunk_N,    \* pl->rcache_wipe_chunk_N
    axis,                   \* pl->axis[aN]
    figure,                 \* pl->figure[fN]
    on_X,                   \* pl->on_X
    on_Y,                   \* pl->on_Y
    draw,                   \* pl->draw[fN]
    sketch,                 \* pl->sketch[hN]
    sketch_list_garbage,    \* pl->sketch_list_garbage
    sketch_list_todraw,     \* pl->sketch_list_todraw
    sketch_list_current,    \* pl->sketch_list_current
    sketch_list_current_end,\* pl->sketch_list_current_end
    draw_in_progress,       \* pl->draw_in_progress
    lz4,                    \* pl->lz4_compress and the compressed side of pl->data[0]
    oob,                    \* an access outside an engine array has happened
    hist                    \* history: what the callers did, for the properties

dataVars   == <<data, rcache, rcache_ID, rcache_wipe_data_N, rcache_wipe_chunk_N>>
figVars    == <<axis, figure, on_X, on_Y>>
sketchVars == <<draw, sketch, sketch_list_garbage, sketch_list_todraw,
                sketch_list_current, sketch_list_current_end, draw_in_progress>>
vars       == <<dataVars, figVars, sketchVars, lz4, oob, hist>>

----------------------------------------------------------------------------
(* Sizes of the engine's fixed arrays (plot.h) in the model.               *)

PLOT_DATASET_MAX == 2
PLOT_CHUNK_MAX   == 2
PLOT_RCACHE_SIZE == 2
PLOT_CHUNK_CACHE == 1
PLOT_SUBTRACT    == 2
PLOT_CHUNK_SIZE  == 6       \* in units of sizeof(fval_t)

(* Bounds of the exploration.                                              *)
MaxInserts == 6             \* inserts per dataset
MaxOps == 4                 \* operations on figures and axes in a run

(* fval_t: two finite values and one value, NaN, for every non-finite one *)
NaN == -9
Values == {0, 1, NaN}

DataIds  == 0..(PLOT_DATASET_MAX - 1)
ChunkIds == 0..(PLOT_CHUNK_MAX - 1)
NodeIds  == 0..(PLOT_CHUNK_CACHE - 1)
CacheIds == 0..(PLOT_RCACHE_SIZE - 1)
SubIds   == 0..(PLOT_SUBTRACT - 1)

Pow2(n) == IF n = 0 THEN 1 ELSE IF n = 1 THEN 2 ELSE IF n = 2 THEN 4
           ELSE IF n = 3 THEN 8 ELSE 16

fp_isfinite(x) == x # NaN

Min2(a, b) == IF a < b THEN a ELSE b
Max2(a, b) == IF a > b THEN a ELSE b

----------------------------------------------------------------------------
(* Dataset: chunked ring store.                                            *)

(* plotDataAlloc picks the least shift with a chunk of at least            *)
(* PLOT_CHUNK_SIZE: bSIZE = sizeof(fval_t) * (cN + PLOT_SUBTRACT) << N.    *)
ChunkShiftOf(cN) ==
    CHOOSE N \in 0..4 : /\ (cN + PLOT_SUBTRACT) * Pow2(N) >= PLOT_CHUNK_SIZE
                        /\ \A M \in 0..(N - 1) :
                              (cN + PLOT_SUBTRACT) * Pow2(M) < PLOT_CHUNK_SIZE

MaxRows == PLOT_CHUNK_MAX * Pow2(ChunkShiftOf(1))
RowIds  == 0..(MaxRows - 1)

NoRow  == [val |-> 0, ord |-> -1]
NoSlot == [busy |-> "FREE", column_1 |-> 0, column_2 |-> 0,
           arg_1 |-> 0, arg_2 |-> 0, in_data_N |-> 0,
           unwrap |-> 0, prev |-> 0, prev2 |-> 0, state |-> 0]

(* calloc'ed dataset of plotAlloc *)
NoData == [column_N |-> 0, length_N |-> 0, chunk_SHIFT |-> 0,
           head_N |-> 0, tail_N |-> 0, id_N |-> 0, sub_N |-> 0,
           raw  |-> [k \in ChunkIds |-> FALSE],
           rows |-> [r \in RowIds |-> NoRow],
           derived |-> [s \in SubIds |-> [r \in RowIds |-> 0]],
           sub  |-> [s \in SubIds |-> NoSlot]]

(* calloc'ed compression fields of a dataset: raw[k] is -1 for NULL or the  *)
(* cache node whose buffer it points to; compress[k] and cache[N].raw are  *)
(* 0 for NULL and 1 for an allocated buffer.                               *)
NoLz4 == [lz4_compress |-> 0, column_N |-> 0, length_N |-> 0, chunk_SHIFT |-> 0,
          head_N |-> 0, tail_N |-> 0, cache_ID |-> 0,
          raw      |-> [k \in ChunkIds |-> -1],
          compress |-> [k \in ChunkIds |-> 0],
          cache    |-> [N \in NodeIds |->
                           [raw |-> 0, chunk_N |-> 0, dirty |-> 0]]]

NoChunk  == [computed |-> 0, finite |-> 0, fmin |-> 0, fmax |-> 0]
NoRcache == [busy |-> 0, data_N |-> 0, column_N |-> 0, cached |-> 0,
             fmin |-> 0, fmax |-> 0, chunk |-> [k \in ChunkIds |-> NoChunk]]

(* plotDataChunkAlloc without compression: the chunk count for lN rows,    *)
(* clamped to PLOT_CHUNK_MAX; `got` chunks could be allocated.             *)
ChunkCount(d, lN) ==
    (IF lN % Pow2(d.chunk_SHIFT) # 0 THEN 1 ELSE 0) + lN \div Pow2(d.chunk_SHIFT)

(* plotDataChunkAlloc as it would be if the length were rounded up to     *)
(* whole chunks                                                            *)
plotDataChunkAlloc_Rounded(d, lN, got) ==
    [d EXCEPT !.raw = [N \in ChunkIds |-> N < ChunkCount(d, lN)],
              !.length_N = ChunkCount(d, lN) * Pow2(d.chunk_SHIFT)]

plotDataChunkAlloc(d, lN, got) ==
    LET kN0 == ChunkCount(d, lN)
        kN  == IF kN0 > PLOT_CHUNK_MAX THEN PLOT_CHUNK_MAX ELSE kN0
        lN1 == IF kN0 > PLOT_CHUNK_MAX THEN kN * Pow2(d.chunk_SHIFT) ELSE lN
        \* raw[N] already present stays; a missing one is malloc'ed while
        \* the allocator delivers (the first `got` requests succeed)
        fail == {N \in 0..(kN - 1) : ~d.raw[N] /\
                    Cardinality({M \in 0..(N - 1) : ~d.raw[M]}) >= got}
        stop == IF fail = {} THEN kN
                ELSE CHOOSE N \in fail : \A M \in fail : N <= M
        lN2  == IF fail = {} THEN lN1 ELSE stop * Pow2(d.chunk_SHIFT)
    IN  [d EXCEPT !.raw = [N \in ChunkIds |->
                            IF N >= kN THEN FALSE
                            ELSE IF N < stop THEN TRUE ELSE d.raw[N]],
                  !.length_N = lN2]

plotDataChunkN(d, rN) == rN \div Pow2(d.chunk_SHIFT)

RingNext(d, rN) == IF rN < d.length_N - 1 THEN rN + 1 ELSE 0

(* plotDataGet: a row is delivered unless the cursor is at the tail or the *)
(* chunk is missing; the cursor then moves to the next ring index.         *)
plotDataGetOk(d, rN) == rN # d.tail_N /\ d.raw[plotDataChunkN(d, rN)]

(* plotDataSkip returns the new <<rN, id_N>> *)
plotDataSkip(d, rN, id_N, sk_N) ==
    LET lN  == d.length_N
        N0  == rN - d.head_N
        N   == IF N0 < 0 THEN N0 + lN ELSE N0
        tN0 == d.tail_N - d.head_N
        tN  == IF tN0 < 0 THEN tN0 + lN ELSE tN0
        sk1 == IF N + sk_N < 0 THEN - N ELSE sk_N
        sk2 == IF N + sk1 > tN THEN tN - N ELSE sk1
        N2  == d.head_N + N + sk2
        N3  == IF N2 > lN - 1 THEN N2 - lN ELSE N2
    IN  <<N3, id_N + sk2>>

plotDataChunkSkip(d, rN, id_N) ==
    LET skip0  == Pow2(d.chunk_SHIFT) - (rN % Pow2(d.chunk_SHIFT))
        wrap_N == d.length_N - rN
        skip_N == IF wrap_N < skip0 THEN wrap_N ELSE skip0
    IN  plotDataSkip(d, rN, id_N, skip_N)

(* The live rows, oldest first, as ring indices. *)
LiveCount(d) == IF d.length_N = 0 THEN 0
                ELSE (d.tail_N - d.head_N + d.length_N) % d.length_N
LiveIndex(d, i) == (d.head_N + i) % d.length_N
----------------------------------------------------------------------------
(* Range cache.                                                            *)

(* plotDataRangeCacheWipe *)
RECURSIVE plotDataRangeCacheWipeFrom(_, _, _, _)
plotDataRangeCacheWipeFrom(rc, dN, kN, N) ==
    IF N >= PLOT_RCACHE_SIZE THEN rc
    ELSE plotDataRangeCacheWipeFrom(
            IF rc[N].busy # 0 /\ rc[N].data_N = dN
            THEN [rc EXCEPT ![N] = [rc[N] EXCEPT !.chunk[kN].computed = 0,
                                                 !.cached = 0]]
            ELSE rc, dN, kN, N + 1)

plotDataRangeCacheWipe(rc, dN, kN) == plotDataRangeCacheWipeFrom(rc, dN, kN, 0)

(* plotDataRangeCacheGetNode: the first busy entry of (dN, cN), or -1 *)
plotDataRangeCacheGetNode(rc, dN, cN) ==
    LET hit == {N \in CacheIds : rc[N].busy # 0 /\ rc[N].data_N = dN
                                  /\ rc[N].column_N = cN}
    IN  IF hit = {} THEN -1 ELSE CHOOSE N \in hit : \A M \in hit : N <= M

(* The value of column cN in a row; column -1 is the logical row id. *)
ColumnOf(d, cN, rN, id_N) ==
    IF cN < 0 THEN id_N
    ELSE IF cN < d.column_N THEN d.rows[rN].val
    ELSE d.derived[cN - d.column_N][rN]

(* Inner loop of plotDataRangeCacheFetch: scan the rows of chunk kN from   *)
(* rN on, folding the finite values into (finite, ymin, ymax).             *)
RECURSIVE FetchChunkScan(_, _, _, _)
FetchChunkScan(d, cN, kN, st) ==
    IF kN # plotDataChunkN(d, st.rN) THEN st
    ELSE IF ~plotDataGetOk(d, st.rN) THEN st
    ELSE LET fval == ColumnOf(d, cN, st.rN, st.id_N)
             acc  == IF ~fp_isfinite(fval) THEN st
                     ELSE IF st.finite # 0
                     THEN [st EXCEPT !.ymin = Min2(fval, st.ymin),
                                     !.ymax = Max2(fval, st.ymax)]
                     ELSE [st EXCEPT !.finite = 1, !.ymin = fval, !.ymax = fval]
         IN  FetchChunkScan(d, cN, kN,
                 [acc EXCEPT !.rN = RingNext(d, st.rN), !.id_N = st.id_N + 1])

(* Whether a computed chunk is rescanned: only the chunk of tail_N is. *)
(* The scan of a chunk starts from nothing, or, for a computed chunk that  *)
(* is scanned again, from the values the cache holds for it.               *)
FetchJob(d, kN, ch) ==
    IF ch.computed # 0 THEN (IF kN = plotDataChunkN(d, d.tail_N) THEN 1 ELSE 0) ELSE 1

FetchSeed(lp, ch) ==
    IF ch.computed # 0
    THEN [rN |-> lp.rN, id_N |-> lp.id_N, finite |-> ch.finite,
          ymin |-> ch.fmin, ymax |-> ch.fmax]
    ELSE [rN |-> lp.rN, id_N |-> lp.id_N, finite |-> 0, ymin |-> 0, ymax |-> 0]

(* The chunk's cache record after the scan (fmin / fmax are stored only    *)
(* when a finite value was seen).                                          *)
FetchChunkResult(ch, job, sc) ==
    IF job # 0
    THEN [computed |-> 1, finite |-> sc.finite,
          fmin |-> IF sc.finite # 0 THEN sc.ymin ELSE ch.fmin,
          fmax |-> IF sc.finite # 0 THEN sc.ymax ELSE ch.fmax]
    ELSE ch

(* The cursor <<rN, id_N>> after the chunk: where the scan stopped, or     *)
(* where plotDataChunkSkip leads.                                          *)
FetchCursor(job, sc, sk) == IF job # 0 THEN <<sc.rN, sc.id_N>> ELSE sk

(* Folding the chunk's range into the aggregate and moving the cursor. *)
FetchAdvance(lp, kN, ch1, cur) ==
    LET agg == IF ch1.finite = 0 THEN lp
               ELSE IF lp.started # 0
               THEN [lp EXCEPT !.fmin = Min2(ch1.fmin, lp.fmin),
                               !.fmax = Max2(ch1.fmax, lp.fmax)]
               ELSE [lp EXCEPT !.started = 1, !.fmin = ch1.fmin,
                               !.fmax = ch1.fmax]
    IN  [agg EXCEPT !.rN = cur[1], !.id_N = cur[2], !.chunk[kN] = ch1]

(* One pass of the outer loop of plotDataRangeCacheFetch. *)
FetchChunk(d, cN, lp, kN, ch, job) ==
    LET sc == FetchChunkScan(d, cN, kN, FetchSeed(lp, ch))
    IN  FetchAdvance(lp, kN, FetchChunkResult(ch, job, sc),
            FetchCursor(job, sc, plotDataChunkSkip(d, lp.rN, lp.id_N)))

(* Outer loop of plotDataRangeCacheFetch over the chunks from head to tail *)
RECURSIVE FetchLoop(_, _, _)
FetchLoop(d, cN, lp) ==
    LET kN == plotDataChunkN(d, lp.rN)
        nx == FetchChunk(d, cN, lp, kN, lp.chunk[kN],
                         FetchJob(d, kN, lp.chunk[kN]))
    IN  IF nx.rN = d.tail_N THEN nx ELSE FetchLoop(d, cN, nx)

(* The entry xN as plotDataRangeCacheFetch leaves it after the scan lp. *)
FetchStore(rc, xN, rID1, dN, cN, lp) ==
    [xN |-> xN, rcache_ID |-> rID1, reset |-> TRUE,
     rcache |-> [rc EXCEPT ![xN] =
         [busy |-> 1, data_N |-> dN, column_N |-> cN, cached |-> 1,
          fmin |-> lp.fmin, fmax |-> lp.fmax, chunk |-> lp.chunk]]]

(* The scan of plotDataRangeCacheFetch into the entry xN, whose chunks are *)
(* first marked not computed when the entry is a new one.                  *)
FetchScan(d, rc, xN, rID1, dN, cN, fresh) ==
    FetchStore(rc, xN, rID1, dN, cN,
        FetchLoop(d, cN,
            [rN |-> d.head_N, id_N |-> d.id_N,
             chunk |-> IF fresh
                       THEN [k \in ChunkIds |->
                                [rc[xN].chunk[k] EXCEPT !.computed = 0]]
                       ELSE rc[xN].chunk,
             fmin |-> 0, fmax |-> 0, started |-> 0]))

(* plotDataRangeCacheFetch as a function of the state it reads: the result *)
(* is [xN, rcache, rcache_ID, reset], reset telling that the wipe memo is  *)
(* cleared (the scan ran).                                                 *)
plotDataRangeCacheFetchOp(dt, rc, rID, dN, cN) ==
    LET hit == plotDataRangeCacheGetNode(rc, dN, cN)
    IN  IF hit >= 0
        THEN IF rc[hit].cached # 0
             THEN [xN |-> hit, rcache |-> rc, rcache_ID |-> rID, reset |-> FALSE]
             ELSE FetchScan(dt[dN], rc, hit, rID, dN, cN, FALSE)
        ELSE FetchScan(dt[dN], rc, rID,
                 IF rID < PLOT_RCACHE_SIZE - 1 THEN rID + 1 ELSE 0,
                 dN, cN, TRUE)

----------------------------------------------------------------------------
(* The engine state plot_t as one record, so that a handler is a function  *)
(* from state to state and handlers can call each other as in the source.  *)

PL == [data |-> data, rcache |-> rcache, rcache_ID |-> rcache_ID,
       rcache_wipe_data_N |-> rcache_wipe_data_N,
       rcache_wipe_chunk_N |-> rcache_wipe_chunk_N,
       axis |-> axis, figure |-> figure, on_X |-> on_X, on_Y |-> on_Y,
       draw |-> draw, sketch |-> sketch,
       sketch_list_garbage |-> sketch_list_garbage,
       sketch_list_todraw |-> sketch_list_todraw,
       sketch_list_current |-> sketch_list_current,
       sketch_list_current_end |-> sketch_list_current_end,
       draw_in_progress |-> draw_in_progress, lz4 |-> lz4, oob |-> oob]

Becomes(p) ==
    /\ data' = p.data
    /\ rcache' = p.rcache
    /\ rcache_ID' = p.rcache_ID
    /\ rcache_wipe_data_N' = p.rcache_wipe_data_N
    /\ rcache_wipe_chunk_N' = p.rcache_wipe_chunk_N
    /\ axis' = p.axis
    /\ figure' = p.figure
    /\ on_X' = p.on_X
    /\ on_Y' = p.on_Y
    /\ draw' = p.draw
    /\ sketch' = p.sketch
    /\ sketch_list_garbage' = p.sketch_list_garbage
    /\ sketch_list_todraw' = p.sketch_list_todraw
    /\ sketch_list_current' = p.sketch_list_current
    /\ sketch_list_current_end' = p.sketch_list_current_end
    /\ draw_in_progress' = p.draw_in_progress
    /\ lz4' = p.lz4
    /\ oob' = p.oob

(* A wipe memo that remembers the chunk but not the dataset. *)
WipeByMemo_ChunkOnly(pl, dN, kN) ==
    IF pl.rcache_wipe_chunk_N # kN
    THEN [pl EXCEPT !.rcache = plotDataRangeCacheWipe(pl.rcache, dN, kN),
                    !.rcache_wipe_data_N = dN,
                    !.rcache_wipe_chunk_N = kN]
    ELSE pl

(* The memo-guarded wipe shared by plotDataInsert and plotDataWrite. *)
WipeByMemo(pl, dN, kN) ==
    IF pl.rcache_wipe_data_N # dN \/ pl.rcache_wipe_chunk_N # kN
    THEN [pl EXCEPT !.rcache = plotDataRangeCacheWipe(pl.rcache, dN, kN),
                    !.rcache_wipe_data_N = dN,
                    !.rcache_wipe_chunk_N = kN]
    ELSE pl

(* An insert that evicts the oldest row without counting it in id_N. *)
plotDataInsert_NoIdBump(pl, dN, v, ord) ==
    LET d   == pl.data[dN]
        lN  == d.length_N
        hN  == d.head_N
        tN  == d.tail_N
        kN  == plotDataChunkN(d, tN)
        pw  == WipeByMemo(pl, dN, kN)
        tN1 == IF tN < lN - 1 THEN tN + 1 ELSE 0
        hN1 == IF hN < lN - 1 THEN hN + 1 ELSE 0
        put == [d EXCEPT !.rows[tN] = [val |-> v, ord |-> ord]]
        d1  == IF hN = tN1
               THEN [put EXCEPT !.head_N = hN1,
                                !.sub_N = IF d.sub_N = tN1 THEN hN1 ELSE d.sub_N,
                                !.tail_N = tN1]
               ELSE [put EXCEPT !.tail_N = tN1]
    IN  IF d.raw[kN] THEN [pw EXCEPT !.data[dN] = d1] ELSE pw

(* An insert that lets the tail run into the head without evicting. *)
plotDataInsert_NoEvict(pl, dN, v, ord) ==
    LET d   == pl.data[dN]
        lN  == d.length_N
        tN  == d.tail_N
        kN  == plotDataChunkN(d, tN)
        pw  == WipeByMemo(pl, dN, kN)
        tN1 == IF tN < lN - 1 THEN tN + 1 ELSE 0
        d1  == [d EXCEPT !.rows[tN] = [val |-> v, ord |-> ord], !.tail_N = tN1]
    IN  IF d.raw[kN] THEN [pw EXCEPT !.data[dN] = d1] ELSE pw

(* An insert that leaves sub_N behind when the row it points at is evicted. *)
plotDataInsert_NoWatermark(pl, dN, v, ord) ==
    LET d   == pl.data[dN]
        lN  == d.length_N
        hN  == d.head_N
        tN  == d.tail_N
        kN  == plotDataChunkN(d, tN)
        pw  == WipeByMemo(pl, dN, kN)
        tN1 == IF tN < lN - 1 THEN tN + 1 ELSE 0
        hN1 == IF hN < lN - 1 THEN hN + 1 ELSE 0
        put == [d EXCEPT !.rows[tN] = [val |-> v, ord |-> ord]]
        d1  == IF hN = tN1
               THEN [put EXCEPT !.id_N = d.id_N + 1,
                                !.head_N = hN1,
                                !.tail_N = tN1]
               ELSE [put EXCEPT !.tail_N = tN1]
    IN  IF d.raw[kN] THEN [pw EXCEPT !.data[dN] = d1] ELSE pw

(* An insert that stores the row without looking at raw[kN]. *)
plotDataInsert_NoChunkTest(pl, dN, v, ord) ==
    LET d   == pl.data[dN]
        lN  == d.length_N
        hN  == d.head_N
        tN  == d.tail_N
        kN  == plotDataChunkN(d, tN)
        pw  == WipeByMemo(pl, dN, kN)
        tN1 == IF tN < lN - 1 THEN tN + 1 ELSE 0
        hN1 == IF hN < lN - 1 THEN hN + 1 ELSE 0
        put == [d EXCEPT !.rows[tN] = [val |-> v, ord |-> ord]]
        d1  == IF hN = tN1
               THEN [put EXCEPT !.id_N = d.id_N + 1,
                                !.head_N = hN1,
                                !.sub_N = IF d.sub_N = tN1 THEN hN1 ELSE d.sub_N,
                                !.tail_N = tN1]
               ELSE [put EXCEPT !.tail_N = tN1]
    IN  [pw EXCEPT !.data[dN] = d1]

(* plotDataInsert of a one-column row with value v; `ord` is the ordinal   *)
(* of the insert, kept with the row for the properties.                    *)
plotDataInsert(pl, dN, v, ord) ==
    LET d   == pl.data[dN]
        lN  == d.length_N
        hN  == d.head_N
        tN  == d.tail_N
        kN  == plotDataChunkN(d, tN)
        pw  == WipeByMemo(pl, dN, kN)
        tN1 == IF tN < lN - 1 THEN tN + 1 ELSE 0
        hN1 == IF hN < lN - 1 THEN hN + 1 ELSE 0
        put == [d EXCEPT !.rows[tN] = [val |-> v, ord |-> ord]]
        d1  == IF hN = tN1
               THEN [put EXCEPT !.id_N = d.id_N + 1,
                                !.head_N = hN1,
                                !.sub_N = IF d.sub_N = tN1 THEN hN1 ELSE d.sub_N,
                                !.tail_N = tN1]
               ELSE [put EXCEPT !.tail_N = tN1]
    IN  IF d.raw[kN] THEN [pw EXCEPT !.data[dN] = d1] ELSE pw

(* plotDataInsert does not check dN.  For dN outside data[] the fields of  *)
(* the dataset are read outside the array (recorded in oob); the chunk     *)
(* index kN computed from them is any value, the wipe finds no cache entry *)
(* of dN, and the memo takes (dN, kN).  The row is then copied through a   *)
(* pointer that was read outside the array as well.                        *)
plotDataInsertOutside(pl, dN, kN) ==
    [pl EXCEPT !.oob = TRUE,
               !.rcache_wipe_data_N = dN,
               !.rcache_wipe_chunk_N = kN]

(* plotDataAlloc of a fresh or an existing dataset *)
plotDataRangeCacheClean(rc, dN) ==
    [N \in CacheIds |-> IF rc[N].data_N = dN THEN [rc[N] EXCEPT !.busy = 0]
                        ELSE rc[N]]

plotDataAlloc(pl, dN, cN, lN, got) ==
    IF dN < 0 \/ dN >= PLOT_DATASET_MAX THEN pl
    ELSE
    LET d == pl.data[dN]
    IN  IF cN < 1 \/ lN < 1 THEN pl
        ELSE IF d.column_N # 0
        THEN IF d.column_N # cN THEN pl
             ELSE [pl EXCEPT
                     !.rcache = plotDataRangeCacheClean(pl.rcache, dN),
                     !.data[dN] = [plotDataChunkAlloc(d, lN, got) EXCEPT
                                     !.head_N = 0, !.tail_N = 0,
                                     !.id_N = 0, !.sub_N = 0]]
        ELSE [pl EXCEPT !.data[dN] =
                 [plotDataChunkAlloc(
                     [d EXCEPT !.column_N = cN,
                               !.chunk_SHIFT = ChunkShiftOf(cN)], lN, got)
                  EXCEPT !.head_N = 0, !.tail_N = 0, !.id_N = 0, !.sub_N = 0,
                         !.sub = [s \in SubIds |-> [d.sub[s] EXCEPT
                                                     !.busy = "FREE"]]]]

(* plotDataResize: a shorter length empties the ring, then the chunks are  *)
(* allocated for the new length; the range cache is not touched.           *)
plotDataResize(pl, dN, lN, got) ==
    IF dN < 0 \/ dN >= PLOT_DATASET_MAX THEN pl
    ELSE IF lN < 1 THEN pl
    ELSE IF pl.data[dN].column_N = 0 THEN pl
    ELSE LET d  == pl.data[dN]
             d1 == IF lN < d.length_N
                   THEN [d EXCEPT !.head_N = 0, !.tail_N = 0,
                                  !.id_N = 0, !.sub_N = 0]
                   ELSE d
         IN  [pl EXCEPT !.data[dN] = plotDataChunkAlloc(d1, lN, got)]

(* plotDataGrowUp: one chunk more than the chunks length_N fills *)
plotDataGrowUp(pl, dN, got) ==
    LET d == pl.data[dN]
    IN  plotDataResize(pl, dN,
            ((d.length_N \div Pow2(d.chunk_SHIFT)) + 1) * Pow2(d.chunk_SHIFT),
            got)

(* plotDataClean: the dataset goes back to unused and its chunks are       *)
(* freed; the slots and the range cache are not touched.                   *)
plotDataClean(pl, dN) ==
    IF pl.data[dN].column_N # 0
    THEN [pl EXCEPT !.data[dN] =
             [pl.data[dN] EXCEPT !.column_N = 0, !.length_N = 0,
                                 !.raw = [k \in ChunkIds |-> FALSE]]]
    ELSE pl

----------------------------------------------------------------------------
(* The chunk cache of a dataset of an engine built with lz4_compress set.  *)
(* z is the compressed side of the dataset: ring cursors, raw[] pointers,  *)
(* compress[] buffers and cache nodes; row contents are left out.          *)

CacheNext(N) == IF N < PLOT_CHUNK_CACHE - 1 THEN N + 1 ELSE 0

CacheVictim(z, N) ==
    IF z.cache[N].chunk_N = z.tail_N \div Pow2(z.chunk_SHIFT)
    THEN CacheNext(N) ELSE N

(* plotDataCacheGetNode: the first node without a buffer; when every node  *)
(* has one, the node after cache_ID, one further if it holds the chunk of  *)
(* tail_N, and cache_ID moves to it.                                       *)
plotDataCacheGetNode(z) ==
    IF \E N \in NodeIds : z.cache[N].raw = 0
    THEN [xN |-> CHOOSE N \in NodeIds :
                    /\ z.cache[N].raw = 0
                    /\ \A M \in NodeIds : z.cache[M].raw = 0 => N <= M,
          cache_ID |-> z.cache_ID]
    ELSE [xN |-> CacheVictim(z, CacheNext(z.cache_ID)),
          cache_ID |-> CacheVictim(z, CacheNext(z.cache_ID))]

(* the victim's chunk kNZ: compressed again if dirty (lzLEN > 0 is the     *)
(* library's success), and raw[kNZ] = NULL                                 *)
CacheCompress(z, kNZ, dirty, lzLEN) ==
    IF dirty # 0
    THEN [z EXCEPT !.compress = [@ EXCEPT ![kNZ] = IF lzLEN > 0 THEN 1 ELSE 0]]
    ELSE z

CacheRelease_Keep(z, kNZ) == z

CacheRelease(z, kNZ) == [z EXCEPT !.raw = [@ EXCEPT ![kNZ] = -1]]

CacheEvict(z, xN, lzLEN) ==
    CacheRelease(CacheCompress(z, z.cache[xN].chunk_N, z.cache[xN].dirty, lzLEN),
                 z.cache[xN].chunk_N)

(* a node without a buffer gets one from malloc (got = 0: malloc failed)   *)
CacheMalloc(z, xN, got) ==
    [z EXCEPT !.cache = [@ EXCEPT ![xN] = [@ EXCEPT !.raw = got]]]

(* cache[xN].chunk_N = kN, dirty = 0, raw[kN] = cache[xN].raw *)
CacheLoad(z, xN, kN) ==
    [[z EXCEPT !.cache = [@ EXCEPT ![xN] =
                   [raw |-> z.cache[xN].raw, chunk_N |-> kN, dirty |-> 0]]]
        EXCEPT !.raw = [@ EXCEPT ![kN] = IF z.cache[xN].raw # 0 THEN xN ELSE -1]]

CacheFetchAt(z, xN, kN, got, lzLEN) ==
    CacheLoad(IF z.cache[xN].raw # 0
              THEN CacheEvict(z, xN, lzLEN)
              ELSE CacheMalloc(z, xN, got),
              xN, kN)

CacheFetchNode(z, g, kN, got, lzLEN) ==
    CacheFetchAt([z EXCEPT !.cache_ID = g.cache_ID], g.xN, kN, got, lzLEN)

plotDataCacheFetch(z, kN, got, lzLEN) ==
    CacheFetchNode(z, plotDataCacheGetNode(z), kN, got, lzLEN)

plotDataChunkFetch(z, kN, got, lzLEN) ==
    IF z.raw[kN] = -1 /\ z.length_N # 0
    THEN plotDataCacheFetch(z, kN, got, lzLEN)
    ELSE z

(* the first node with chunk_N = kN is marked dirty *)
ChunkDirty(z, kN) ==
    IF z.raw[kN] # -1 /\ \E N \in NodeIds : z.cache[N].chunk_N = kN
    THEN [z EXCEPT !.cache = [@ EXCEPT
             ![CHOOSE N \in NodeIds :
                 /\ z.cache[N].chunk_N = kN
                 /\ \A M \in NodeIds : z.cache[M].chunk_N = kN => N <= M] =
                     [@ EXCEPT !.dirty = 1]]]
    ELSE z

plotDataChunkWrite(z, kN, got, lzLEN) ==
    ChunkDirty(plotDataChunkFetch(z, kN, got, lzLEN), kN)

(* plotDataChunkAlloc with compression: the compressed buffers past the    *)
(* new chunk count are freed; nothing is allocated.                        *)
ChunkAllocCompress(z, kN, lN) ==
    [z EXCEPT !.compress = [k \in ChunkIds |-> IF k >= kN THEN 0 ELSE z.compress[k]],
              !.length_N = lN]

plotDataChunkAllocCompress(z, lN) ==
    IF ChunkCount(z, lN) > PLOT_CHUNK_MAX
    THEN ChunkAllocCompress(z, PLOT_CHUNK_MAX,
                            PLOT_CHUNK_MAX * Pow2(z.chunk_SHIFT))
    ELSE ChunkAllocCompress(z, ChunkCount(z, lN), lN)

(* plotDataAlloc, plotDataInsert, plotDataGet and plotDataClean as they    *)
(* act on the compressed side                                              *)
CompressDataAlloc(z, cN, lN) ==
    IF z.column_N # 0
    THEN IF z.column_N # cN THEN z
         ELSE [plotDataChunkAllocCompress(z, lN)
                  EXCEPT !.head_N = 0, !.tail_N = 0]
    ELSE [plotDataChunkAllocCompress(
              [z EXCEPT !.column_N = cN, !.chunk_SHIFT = ChunkShiftOf(cN)], lN)
             EXCEPT !.cache_ID = 0, !.head_N = 0, !.tail_N = 0]

CompressRingNext(z, N) == IF N < z.length_N - 1 THEN N + 1 ELSE 0

CompressStore(z, kN) ==
    IF z.raw[kN] = -1 THEN z
    ELSE [z EXCEPT !.tail_N = CompressRingNext(z, z.tail_N),
                   !.head_N = IF z.head_N = CompressRingNext(z, z.tail_N)
                              THEN CompressRingNext(z, z.head_N) ELSE @]

CompressDataInsert(z, got, lzLEN) ==
    CompressStore(plotDataChunkWrite(z, z.tail_N \div Pow2(z.chunk_SHIFT),
                                     got, lzLEN),
                  z.tail_N \div Pow2(z.chunk_SHIFT))

CompressDataGet(z, rN, got, lzLEN) ==
    IF rN # z.tail_N
    THEN plotDataChunkFetch(z, rN \div Pow2(z.chunk_SHIFT), got, lzLEN)
    ELSE z

CompressDataClean(z) ==
    IF z.column_N # 0
    THEN [z EXCEPT !.column_N = 0, !.length_N = 0,
                   !.cache = [N \in NodeIds |->
                                 [raw |-> 0, chunk_N |-> z.cache[N].chunk_N,
                                  dirty |-> z.cache[N].dirty]],
                   !.raw = [k \in ChunkIds |-> -1],
                   !.compress = [k \in ChunkIds |-> 0]]
    ELSE z

(* plotDataRangeCacheFetch on the engine state; the node is in .ret *)
FetchReturn(pl, r) ==
    [pl |-> [pl EXCEPT
               !.rcache = r.rcache,
               !.rcache_ID = r.rcache_ID,
               !.rcache_wipe_data_N =
                   IF r.reset THEN -1 ELSE pl.rcache_wipe_data_N,
               !.rcache_wipe_chunk_N =
                   IF r.reset THEN -1 ELSE pl.rcache_wipe_chunk_N],
     ret |-> r.xN, scanned |-> r.reset]

plotDataRangeCacheFetch(pl, dN, cN) ==
    FetchReturn(pl,
        plotDataRangeCacheFetchOp(pl.data, pl.rcache, pl.rcache_ID, dN, cN))

(* The loop `row = plotDataWrite(pl, dN, &rN)` until NULL that every       *)
(* derived-column pass runs from rN to the tail.                           *)
RECURSIVE plotDataWritePass(_, _, _)
plotDataWritePass(pl, dN, rN) ==
    LET d  == pl.data[dN]
        kN == plotDataChunkN(d, rN)
        pw == WipeByMemo(pl, dN, kN)
    IN  IF rN = d.tail_N THEN pl
        ELSE IF ~d.raw[kN] THEN pw
        ELSE plotDataWritePass(pw, dN, RingNext(d, rN))

(* Comparison and sum of fval_t: a comparison with NaN is false, a sum    *)
(* with NaN is NaN.                                                        *)
FLess(a, b) == a # NaN /\ b # NaN /\ a < b
FAdd(a, b) == IF a = NaN \/ b = NaN THEN NaN ELSE a + b

(* A TIME_UNWRAP that takes a backward step by itself, without the step   *)
(* before it.                                                              *)
TimeUnwrapOffset_NoStep(st, X_1) ==
    IF FLess(X_1, st.X_2) THEN st.offset + (st.X_2 - X_1) ELSE st.offset

(* TIME_UNWRAP, one row: st holds the locals offset, X_2 and X_3. *)
TimeUnwrapOffset(st, X_1) ==
    IF FLess(X_1, st.X_2)
    THEN st.offset + (st.X_2 - X_1)
            + (IF FLess(st.X_3, st.X_2) THEN st.X_2 - st.X_3 ELSE 0)
    ELSE st.offset

TimeUnwrapRow(st, X_1, offset) ==
    [st  |-> [offset |-> offset,
              X_2 |-> IF fp_isfinite(X_1) THEN X_1 ELSE st.X_2,
              X_3 |-> IF fp_isfinite(X_1) THEN st.X_2 ELSE st.X_3],
     out |-> FAdd(X_1, offset)]

(* FILTER_CUMULATIVE, one row: X_2 is the running sum. *)
CumulativeRow(st, X_1) ==
    IF fp_isfinite(X_1)
    THEN [st |-> [st EXCEPT !.X_2 = @ + X_1], out |-> st.X_2 + X_1]
    ELSE [st |-> st, out |-> st.X_2]

SubtractRow(mode, st, X_1) ==
    IF mode = "TIME_UNWRAP"
    THEN TimeUnwrapRow(st, X_1, TimeUnwrapOffset(st, X_1))
    ELSE CumulativeRow(st, X_1)

(* The pass of a slot that keeps a state: plotDataWrite gives the rows     *)
(* from rN to the tail, each takes row[cN] from the source column.         *)
RECURSIVE SubtractPass(_, _, _, _, _, _)
SubtractPut(pw, dN, sN, rN, id_N, nx) ==
    SubtractPass([pw EXCEPT !.data[dN] =
                     [pw.data[dN] EXCEPT !.derived[sN][rN] = nx.out]],
                 dN, sN, RingNext(pw.data[dN], rN), id_N + 1, nx.st)

SubtractWrite(pw, dN, sN, rN, id_N, st) ==
    IF ~pw.data[dN].raw[plotDataChunkN(pw.data[dN], rN)]
    THEN [pl |-> pw, st |-> st]
    ELSE SubtractPut(pw, dN, sN, rN, id_N,
            SubtractRow(pw.data[dN].sub[sN].busy, st,
                ColumnOf(pw.data[dN], pw.data[dN].sub[sN].column_1, rN, id_N)))

SubtractPass(pl, dN, sN, rN, id_N, st) ==
    IF rN = pl.data[dN].tail_N THEN [pl |-> pl, st |-> st]
    ELSE SubtractWrite(WipeByMemo(pl, dN, plotDataChunkN(pl.data[dN], rN)),
                       dN, sN, rN, id_N, st)

(* A pass that never takes up the state the pass before it left. *)
SubtractState_Reset(d, u, rS) ==
    IF u.busy = "TIME_UNWRAP"
    THEN [offset |-> 0, X_2 |-> NaN, X_3 |-> NaN]
    ELSE [offset |-> 0, X_2 |-> 0, X_3 |-> 0]

(* the state of the slot before the pass, reset when it starts at the head *)
SubtractState(d, u, rS) ==
    IF u.busy = "TIME_UNWRAP"
    THEN IF rS = d.head_N THEN [offset |-> 0, X_2 |-> NaN, X_3 |-> NaN]
         ELSE [offset |-> u.unwrap, X_2 |-> u.prev, X_3 |-> u.prev2]
    ELSE [offset |-> 0, X_2 |-> IF rS = d.head_N THEN 0 ELSE u.state,
          X_3 |-> 0]

SubtractStore(r, dN, sN, mode) ==
    [r.pl EXCEPT !.data[dN].sub[sN] =
        IF mode = "TIME_UNWRAP"
        THEN [r.pl.data[dN].sub[sN] EXCEPT !.unwrap = r.st.offset,
                                           !.prev = r.st.X_2,
                                           !.prev2 = r.st.X_3]
        ELSE [r.pl.data[dN].sub[sN] EXCEPT !.state = r.st.X_2]]

SubtractStateful(pl, d, dN, sN, rS) ==
    SubtractStore(
        SubtractPass(pl, dN, sN, rS,
                     d.id_N + ((rS - d.head_N + d.length_N) % d.length_N),
                     SubtractState(d, d.sub[sN], rS)),
        dN, sN, d.sub[sN].busy)

(* plotDataSubtract(dN, sN): the slots sN (or all of them for sN = -1) are *)
(* applied in index order, each by a write pass from rS.  RESAMPLE writes  *)
(* only when the pass starts at the head.  The values of TIME_UNWRAP and   *)
(* FILTER_CUMULATIVE are followed, of the other modes the writes only.     *)
SubtractWrites(d, mode, rS) ==
    /\ mode # "FREE"
    /\ mode = "RESAMPLE" => rS = d.head_N

RECURSIVE SubtractSlots(_, _, _, _, _)
SubtractSlots(pl, dN, sN, sE, rS) ==
    LET mode == pl.data[dN].sub[sN].busy
        p1   == IF mode \in {"TIME_UNWRAP", "FILTER_CUMULATIVE"}
                THEN SubtractStateful(pl, pl.data[dN], dN, sN, rS)
                ELSE IF SubtractWrites(pl.data[dN], mode, rS)
                THEN plotDataWritePass(pl, dN, rS) ELSE pl
    IN  IF sN + 1 < sE THEN SubtractSlots(p1, dN, sN + 1, sE, rS) ELSE p1

plotDataSubtract(pl, dN, sN) ==
    IF dN < 0 \/ dN >= PLOT_DATASET_MAX THEN pl
    ELSE IF sN < -1 \/ sN >= PLOT_SUBTRACT THEN pl
    ELSE IF sN < 0
    THEN SubtractSlots([pl EXCEPT !.data[dN].sub_N = pl.data[dN].tail_N],
                       dN, 0, PLOT_SUBTRACT, pl.data[dN].sub_N)
    ELSE SubtractSlots(pl, dN, sN, sN, pl.data[dN].head_N)

(* plotDataSubtractClean: every slot of every dataset in use is freed; the *)
(* figures keep their columns.                                             *)
plotDataSubtractClean(pl) ==
    [pl EXCEPT !.data =
        [dN \in DataIds |->
            IF pl.data[dN].column_N # 0
            THEN [pl.data[dN] EXCEPT !.sub =
                     [N \in SubIds |-> [pl.data[dN].sub[N] EXCEPT
                                           !.busy = "FREE"]]]
            ELSE pl.data[dN]]]

(* plotGetSubtractScaleByMatch, plotGetFreeSubtract: first match or -1 *)
FirstOf(S) == IF S = {} THEN -1 ELSE CHOOSE N \in S : \A M \in S : N <= M

plotGetSubtractScaleByMatch_Never(pl, dN, cN, scale, offset) == -1

plotGetSubtractScaleByMatch(pl, dN, cN, scale, offset) ==
    FirstOf({sN \in SubIds :
                LET u == pl.data[dN].sub[sN]
                IN  u.busy = "SCALE" /\ u.column_1 = cN
                    /\ u.arg_1 = scale /\ u.arg_2 = offset})

plotGetFreeSubtract(pl, dN) ==
    FirstOf({sN \in SubIds : pl.data[dN].sub[sN].busy = "FREE"})

(* plotGetSubtractScale: [pl, ret], ret the derived column or -1 *)
plotGetSubtractScale(pl, dN, cN, scale, offset) ==
    IF dN < 0 \/ dN >= PLOT_DATASET_MAX THEN [pl |-> pl, ret |-> -1]
    ELSE LET mN == plotGetSubtractScaleByMatch(pl, dN, cN, scale, offset)
             fN == plotGetFreeSubtract(pl, dN)
         IN  IF mN # -1
             THEN [pl |-> pl, ret |-> mN + pl.data[dN].column_N]
             ELSE IF fN = -1 THEN [pl |-> pl, ret |-> -1]
             ELSE [pl |-> plotDataSubtract(
                            [pl EXCEPT !.data[dN].sub[fN] =
                                [pl.data[dN].sub[fN] EXCEPT
                                    !.busy = "SCALE", !.column_1 = cN,
                                    !.arg_1 = scale, !.arg_2 = offset]],
                            dN, fN),
                   ret |-> fN + pl.data[dN].column_N]

(* plotGetSubtractTimeUnwrapByMatch: first match or -1 *)
plotGetSubtractTimeUnwrapByMatch(pl, dN, cN) ==
    FirstOf({sN \in SubIds :
                /\ pl.data[dN].sub[sN].busy = "TIME_UNWRAP"
                /\ pl.data[dN].sub[sN].column_1 = cN})

(* plotGetSubtractTimeUnwrap: [pl, ret], ret the derived column or -1 *)
TimeUnwrapSlot(pl, dN, cN, mN, fN) ==
    IF mN # -1 THEN [pl |-> pl, ret |-> mN + pl.data[dN].column_N]
    ELSE IF fN = -1 THEN [pl |-> pl, ret |-> -1]
    ELSE [pl |-> plotDataSubtract(
                    [pl EXCEPT !.data[dN].sub[fN] =
                        [pl.data[dN].sub[fN] EXCEPT
                            !.busy = "TIME_UNWRAP", !.column_1 = cN]],
                    dN, fN),
          ret |-> fN + pl.data[dN].column_N]

plotGetSubtractTimeUnwrap(pl, dN, cN) ==
    IF dN < 0 \/ dN >= PLOT_DATASET_MAX THEN [pl |-> pl, ret |-> -1]
    ELSE TimeUnwrapSlot(pl, dN, cN,
                        plotGetSubtractTimeUnwrapByMatch(pl, dN, cN),
                        plotGetFreeSubtract(pl, dN))

----------------------------------------------------------------------------
(* plotDataSliceGet: the row of the dataset nearest to fsamp in column cN. *)

PLOT_SLICE_SPAN == 4
PLOT_POLYFIT_MAX == 7

FAbs(x) == IF x < 0 THEN -x ELSE x

(* a row with a finite value is taken when it is the first or nearer *)
SliceRow(st, fval, fsamp) ==
    IF ~fp_isfinite(fval) THEN st
    ELSE IF st.started # 0 /\ ~(FAbs(fsamp - fval) < st.fbest) THEN st
    ELSE [st EXCEPT !.started = 1, !.fbest = FAbs(fsamp - fval),
                    !.best_N = st.id_N]

(* the inner loop: the rows of chunk kN from the cursor on *)
RECURSIVE SliceChunkScan(_, _, _, _, _)
SliceChunkScan(d, cN, kN, fsamp, st) ==
    IF kN # plotDataChunkN(d, st.rN) THEN st
    ELSE IF ~plotDataGetOk(d, st.rN) THEN st
    ELSE SliceChunkScan(d, cN, kN, fsamp,
            [SliceRow(st, ColumnOf(d, cN, st.rN, st.id_N), fsamp)
                EXCEPT !.rN = RingNext(d, st.rN), !.id_N = st.id_N + 1])

(* a computed chunk that does not hold fsamp is left out; the nearest of   *)
(* these chunks is remembered in kN_rep                                    *)
SliceNear(st, kN, near) ==
    IF st.kN_rep >= 0 /\ ~(near < st.fneard) THEN st
    ELSE [st EXCEPT !.fneard = near, !.kN_rep = kN]

SliceJob(ch, xN, fsamp) ==
    IF xN >= 0 /\ ch.computed # 0
    THEN IF ch.finite # 0
         THEN (IF fsamp < ch.fmin \/ fsamp > ch.fmax THEN 0 ELSE 1)
         ELSE 0
    ELSE 1

SliceSkipped(d, st, ch, xN, kN, fsamp, cur) ==
    [(IF xN >= 0 /\ ch.computed # 0 /\ ch.finite # 0
      THEN SliceNear(st, kN, Min2(FAbs(ch.fmin - fsamp),
                                  FAbs(ch.fmax - fsamp)))
      ELSE st) EXCEPT !.rN = cur[1], !.id_N = cur[2]]

(* the first walk over the chunks from the head *)
RECURSIVE SliceWalk(_, _, _, _, _, _)
SliceWalked(d, rc, xN, cN, fsamp, st, nx) ==
    IF nx.span >= PLOT_SLICE_SPAN /\ nx.span # st.span THEN nx
    ELSE IF nx.rN = d.tail_N THEN nx
    ELSE SliceWalk(d, rc, xN, cN, fsamp, nx)

SliceWalk(d, rc, xN, cN, fsamp, st) ==
    SliceWalked(d, rc, xN, cN, fsamp, st,
        IF SliceJob(rc[xN].chunk[plotDataChunkN(d, st.rN)], xN, fsamp) # 0
        THEN SliceChunkScan(d, cN, plotDataChunkN(d, st.rN), fsamp,
                            [st EXCEPT !.span = st.span + 1])
        ELSE SliceSkipped(d, st, rc[xN].chunk[plotDataChunkN(d, st.rN)],
                          xN, plotDataChunkN(d, st.rN), fsamp,
                          plotDataChunkSkip(d, st.rN, st.id_N)))

(* the second walk: the chunk kN_rep alone is scanned *)
RECURSIVE SliceAgain(_, _, _, _)
SliceAgainNext(d, cN, fsamp, nx) ==
    IF nx.rN = d.tail_N THEN nx ELSE SliceAgain(d, cN, fsamp, nx)

SliceAgain(d, cN, fsamp, st) ==
    SliceAgainNext(d, cN, fsamp,
        IF plotDataChunkN(d, st.rN) = st.kN_rep
        THEN SliceChunkScan(d, cN, st.kN_rep, fsamp, st)
        ELSE [st EXCEPT !.rN = plotDataChunkSkip(d, st.rN, st.id_N)[1],
                        !.id_N = plotDataChunkSkip(d, st.rN, st.id_N)[2]])

SliceEnd(d, cN, fsamp, st) ==
    IF st.started = 0 /\ st.kN_rep >= 0
    THEN SliceAgain(d, cN, fsamp,
                    [st EXCEPT !.rN = d.head_N, !.id_N = d.id_N])
    ELSE st

(* [pl, ret]: ret is *m_id_N, the id of the row returned, or -1 for NULL *)
SliceFetched(r, d, cN, fsamp) ==
    [pl  |-> r.pl,
     ret |-> LET st == SliceEnd(d, cN, fsamp,
                          SliceWalk(d, r.pl.rcache, r.ret, cN, fsamp,
                              [rN |-> d.head_N, id_N |-> d.id_N,
                               kN_rep |-> -1, fneard |-> 0, started |-> 0,
                               fbest |-> 0, best_N |-> -1, span |-> 0]))
             IN  IF st.started # 0 THEN st.best_N ELSE -1]

plotDataSliceGet(pl, dN, cN, fsamp) ==
    SliceFetched(plotDataRangeCacheFetch(pl, dN, cN), pl.data[dN], cN, fsamp)

----------------------------------------------------------------------------
(* Axes, figures, draw cursors and sketches: the calloc'ed state.          *)

PLOT_AXES_MAX   == 3
PLOT_FIGURE_MAX == 3
PLOT_SKETCH_MAX == 3
PLOT_SKETCH_CHUNK_SIZE == 4

AXIS_FREE   == "FREE"
AXIS_BUSY_X == "BUSY_X"
AXIS_BUSY_Y == "BUSY_Y"

AXIS_SLAVE_DISABLE    == "DISABLE"
AXIS_SLAVE_ENABLE     == "ENABLE"
AXIS_SLAVE_HOLD_AS_IS == "HOLD_AS_IS"

AxisIds   == 0..(PLOT_AXES_MAX - 1)
FigureIds == 0..(PLOT_FIGURE_MAX - 1)
SketchIds == 0..(PLOT_SKETCH_MAX - 1)

NoAxis == [busy |-> AXIS_FREE, slave |-> 0, slave_N |-> 0,
           scale |-> 0, offset |-> 0, lock_scale |-> 0]

NoFigure == [busy |-> 0, hidden |-> 0, drawing |-> "LINE", width |-> 0,
             data_N |-> 0, column_X |-> 0, column_Y |-> 0,
             axis_X |-> 0, axis_Y |-> 0]

NoDraw == [sketch |-> "STARTED", rN |-> 0, id_N |-> 0, skipped |-> 0,
           line |-> 0, last_X |-> 0, last_Y |-> 0, list_self |-> -1]

NoSketch == [figure_N |-> 0, drawing |-> "LINE", width |-> 0,
             points |-> <<>>, linked |-> -1]

(* plotAlloc *)
plotAlloc ==
    [data |-> [dN \in DataIds |-> NoData],
     rcache |-> [N \in CacheIds |-> NoRcache],
     rcache_ID |-> 0,
     rcache_wipe_data_N |-> 0,
     rcache_wipe_chunk_N |-> 0,
     axis |-> [aN \in AxisIds |-> NoAxis],
     figure |-> [fN \in FigureIds |-> NoFigure],
     on_X |-> 0, on_Y |-> 0,
     draw |-> [fN \in FigureIds |-> NoDraw],
     sketch |-> [hN \in SketchIds |->
                   [NoSketch EXCEPT !.linked =
                       IF hN < PLOT_SKETCH_MAX - 1 THEN hN + 1 ELSE -1]],
     sketch_list_garbage |-> 0,
     sketch_list_todraw |-> -1,
     sketch_list_current |-> -1,
     sketch_list_current_end |-> -1,
     draw_in_progress |-> 0,
     lz4 |-> NoLz4,
     oob |-> FALSE]

IsState(p) ==
    /\ data = p.data
    /\ rcache = p.rcache
    /\ rcache_ID = p.rcache_ID
    /\ rcache_wipe_data_N = p.rcache_wipe_data_N
    /\ rcache_wipe_chunk_N = p.rcache_wipe_chunk_N
    /\ axis = p.axis
    /\ figure = p.figure
    /\ on_X = p.on_X
    /\ on_Y = p.on_Y
    /\ draw = p.draw
    /\ sketch = p.sketch
    /\ sketch_list_garbage = p.sketch_list_garbage
    /\ sketch_list_todraw = p.sketch_list_todraw
    /\ sketch_list_current = p.sketch_list_current
    /\ sketch_list_current_end = p.sketch_list_current_end
    /\ draw_in_progress = p.draw_in_progress
    /\ lz4 = p.lz4
    /\ oob = p.oob

(* History kept for the properties: ins[dN] rows stored so far, ret the    *)
(* range-cache node the last call returned (-1: the last call was not a    *)
(* fetch), wr[N] the chunks of entry N's dataset written since the entry   *)
(* was last scanned.                                                       *)
NoHist == [ins |-> [dN \in DataIds |-> 0],
           ret |-> -1,
           wr  |-> [N \in CacheIds |-> {}],
           op  |-> "none",
           n   |-> 0,
           ref |-> <<>>,
           cuts |-> 0,
           frame |-> 0,
           kept |-> TRUE,
           out |-> <<>>,
           arg |-> 0]

----------------------------------------------------------------------------
(* Arithmetic on fval_t / double.  Values are integers and the not-a-number *)
(* NaN; the products and sums the engine takes are exact on them, and the  *)
(* quotients are taken only where they are exact.                          *)

FMulAdd(x, scale, offset) ==
    IF x = NaN \/ scale = NaN \/ offset = NaN THEN NaN ELSE x * scale + offset

(* a quotient with a zero divisor is not finite: the model holds every     *)
(* non-finite number as NaN                                                *)
FDiv(a, b) == IF a = NaN \/ b = NaN \/ b = 0 THEN NaN ELSE a \div b

(* A running (started, fmin, fmax) takes in the range [lo, hi]. *)
RangeFold(st, lo, hi) ==
    IF st.started # 0
    THEN [st EXCEPT !.fmin = Min2(lo, st.fmin), !.fmax = Max2(hi, st.fmax)]
    ELSE [st EXCEPT !.started = 1, !.fmin = lo, !.fmax = hi]

----------------------------------------------------------------------------
(* Ranges of a column: whole, and restricted to the rows another column    *)
(* puts inside the unit interval of an axis.                               *)

(* plotDataRangeGet: the fetch; the range is the entry's fmin / fmax. *)
plotDataRangeGet(pl, dN, cN) == plotDataRangeCacheFetch(pl, dN, cN)

(* plotDataRangeCond, a row of the inner loop *)
CondRow(st, fval, fcond, rN1) ==
    [(IF fcond >= 0 /\ fcond <= 1 /\ fp_isfinite(fval)
      THEN RangeFold(st, fval, fval) ELSE st)
        EXCEPT !.rN = rN1, !.id_N = st.id_N + 1]

RECURSIVE CondChunkScan(_, _, _, _, _, _, _)
CondChunkScan(d, cN, cN_cond, scale, offset, kN, st) ==
    IF kN # plotDataChunkN(d, st.rN) THEN st
    ELSE IF ~plotDataGetOk(d, st.rN) THEN st
    ELSE CondChunkScan(d, cN, cN_cond, scale, offset, kN,
            CondRow(st, ColumnOf(d, cN, st.rN, st.id_N),
                    FMulAdd(ColumnOf(d, cN_cond, st.rN, st.id_N), scale, offset),
                    RingNext(d, st.rN)))

(* plotDataRangeCond, what is done with a chunk given the cached ranges X  *)
(* of the condition column and Y of the column asked for.                  *)
CondJob(X, Y, vmin, vmax) ==
    IF X.computed # 0
    THEN IF X.finite # 0
         THEN IF Y.computed # 0 /\ vmin >= 0 /\ vmin <= 1
                                /\ vmax >= 0 /\ vmax <= 1
              THEN "absorb"
              ELSE IF vmin > 1 \/ vmax < 0 THEN "skip" ELSE "scan"
         ELSE "skip"
    ELSE "scan"

CondSkip(st, how, Y, cur) ==
    [(IF how = "absorb" /\ Y.finite # 0
      THEN RangeFold(st, Y.fmin, Y.fmax) ELSE st)
        EXCEPT !.rN = cur[1], !.id_N = cur[2]]

CondChunk(d, cN, cN_cond, scale, offset, kN, st, how, Y) ==
    IF how = "scan"
    THEN CondChunkScan(d, cN, cN_cond, scale, offset, kN, st)
    ELSE CondSkip(st, how, Y, plotDataChunkSkip(d, st.rN, st.id_N))

CondNext(d, X, Y, cN, cN_cond, scale, offset, kN, st) ==
    CondChunk(d, cN, cN_cond, scale, offset, kN, st,
              CondJob(X, Y, FMulAdd(X.fmin, scale, offset),
                            FMulAdd(X.fmax, scale, offset)), Y)

RECURSIVE CondLoop(_, _, _, _, _, _, _, _)
CondLoop(d, rcX, rcY, cN, cN_cond, scale, offset, st) ==
    LET nx == CondNext(d, rcX.chunk[plotDataChunkN(d, st.rN)],
                       rcY.chunk[plotDataChunkN(d, st.rN)],
                       cN, cN_cond, scale, offset,
                       plotDataChunkN(d, st.rN), st)
    IN  IF nx.rN = d.tail_N THEN nx
        ELSE CondLoop(d, rcX, rcY, cN, cN_cond, scale, offset, nx)

CondScan(pl, d, xN, yN, cN, cN_cond, scale, offset, acc) ==
    [pl  |-> pl,
     acc |-> CondLoop(d, pl.rcache[xN], pl.rcache[yN], cN, cN_cond,
                      scale, offset,
                      [rN |-> d.head_N, id_N |-> d.id_N,
                       started |-> acc.started,
                       fmin |-> acc.fmin, fmax |-> acc.fmax])]

CondFetched(x, y, dN, cN, cN_cond, scale, offset, acc) ==
    CondScan(y.pl, y.pl.data[dN], x.ret, y.ret, cN, cN_cond, scale, offset, acc)

CondFetchY(x, dN, cN, cN_cond, scale, offset, acc) ==
    CondFetched(x, plotDataRangeCacheFetch(x.pl, dN, cN),
                dN, cN, cN_cond, scale, offset, acc)

(* plotDataRangeCond: [pl, acc], acc the running (started, fmin, fmax) *)
plotDataRangeCond(pl, dN, cN, cN_cond, acc, scale, offset) ==
    CondFetchY(plotDataRangeCacheFetch(pl, dN, cN_cond),
               dN, cN, cN_cond, scale, offset, acc)

(* The range a fetch found *)
RangeOf(g) ==
    [pl |-> g.pl, fmin |-> g.pl.rcache[g.ret].fmin,
                  fmax |-> g.pl.rcache[g.ret].fmax]

(* plotDataRangeAxis: which column conditions figure f's column cN on axis *)
(* aN, directly and then through a slave of aN (the later match wins).     *)
RangeAxisDirect(f, aN, cN) ==
    IF f.axis_X = aN /\ f.column_Y = cN
    THEN [job |-> 1, scale |-> 1, offset |-> 0, cN_cond |-> f.column_X]
    ELSE IF f.axis_Y = aN /\ f.column_X = cN
    THEN [job |-> 1, scale |-> 1, offset |-> 0, cN_cond |-> f.column_Y]
    ELSE [job |-> 0, scale |-> 0, offset |-> 0, cN_cond |-> 0]

RangeAxisSlave(f, aX, aY, aN, cN, direct) ==
    IF aX.slave # 0 /\ aX.slave_N = aN /\ f.column_Y = cN
    THEN [job |-> 1, scale |-> aX.scale, offset |-> aX.offset,
          cN_cond |-> f.column_X]
    ELSE IF aY.slave # 0 /\ aY.slave_N = aN /\ f.column_X = cN
    THEN [job |-> 1, scale |-> aY.scale, offset |-> aY.offset,
          cN_cond |-> f.column_Y]
    ELSE direct

RangeAxisPick(pl, f, dN, cN, aN) ==
    IF f.busy # 0 /\ f.hidden = 0 /\ f.data_N = dN
    THEN RangeAxisSlave(f, pl.axis[f.axis_X], pl.axis[f.axis_Y], aN, cN,
                        RangeAxisDirect(f, aN, cN))
    ELSE [job |-> 0, scale |-> 0, offset |-> 0, cN_cond |-> 0]

RangeAxisCond(pl, dN, cN, a, pick, acc) ==
    IF pick.job # 0
    THEN plotDataRangeCond(pl, dN, cN, pick.cN_cond, acc,
                           pick.scale * a.scale,
                           pick.offset * a.scale + a.offset)
    ELSE [pl |-> pl, acc |-> acc]

RECURSIVE RangeAxisLoop(_, _, _, _, _)
RangeAxisLoop(s, dN, cN, aN, fN) ==
    IF fN >= PLOT_FIGURE_MAX THEN s
    ELSE RangeAxisLoop(
            RangeAxisCond(s.pl, dN, cN, s.pl.axis[aN],
                          RangeAxisPick(s.pl, s.pl.figure[fN], dN, cN, aN),
                          s.acc),
            dN, cN, aN, fN + 1)

RangeAxisEnd(s, dN, cN) ==
    IF s.acc.started # 0
    THEN [pl |-> s.pl, fmin |-> s.acc.fmin, fmax |-> s.acc.fmax]
    ELSE RangeOf(plotDataRangeGet(s.pl, dN, cN))

(* plotDataRangeAxis: [pl, fmin, fmax] *)
plotDataRangeAxis(pl, dN, cN, aN) ==
    RangeAxisEnd(RangeAxisLoop([pl |-> pl,
                                acc |-> [started |-> 0, fmin |-> 0, fmax |-> 0]],
                               dN, cN, aN, 0), dN, cN)

----------------------------------------------------------------------------
(* Axis scale.                                                             *)

plotAxisScaleManual(pl, aN, min, max) ==
    IF aN < 0 \/ aN >= PLOT_AXES_MAX THEN pl
    ELSE IF pl.axis[aN].busy = AXIS_FREE THEN pl
    ELSE IF pl.axis[aN].slave # 0 THEN pl
    ELSE [pl EXCEPT !.axis[aN].scale  = FDiv(1, max - min),
                    !.axis[aN].offset = FDiv(0 - min, max - min)]

(* plotAxisScaleAutoCond, the range of one column against the axis bN *)
AutoRange(pl, dN, cN, bN) ==
    IF bN = -1 THEN RangeOf(plotDataRangeGet(pl, dN, cN))
    ELSE plotDataRangeAxis(pl, dN, cN, bN)

AutoFold(r, acc, scale, offset) ==
    [pl  |-> r.pl,
     acc |-> RangeFold(acc, FMulAdd(r.fmin, scale, offset),
                            FMulAdd(r.fmax, scale, offset))]

(* the figure's column that lies on aN itself *)
AutoDirect(s, f, aN, bN) ==
    IF f.axis_X = aN
    THEN AutoFold(AutoRange(s.pl, f.data_N, f.column_X, bN), s.acc, 1, 0)
    ELSE IF f.axis_Y = aN
    THEN AutoFold(AutoRange(s.pl, f.data_N, f.column_Y, bN), s.acc, 1, 0)
    ELSE s

(* the figure's column that lies on a slave of aN *)
AutoSlave(s, f, aX, aY, aN, bN) ==
    IF aX.slave # 0 /\ aX.slave_N = aN
    THEN AutoFold(AutoRange(s.pl, f.data_N, f.column_X, bN), s.acc,
                  aX.scale, aX.offset)
    ELSE IF aY.slave # 0 /\ aY.slave_N = aN
    THEN AutoFold(AutoRange(s.pl, f.data_N, f.column_Y, bN), s.acc,
                  aY.scale, aY.offset)
    ELSE s

AutoFigure(s, f, aN, bN) ==
    IF f.busy # 0 /\ f.hidden = 0
    THEN AutoSlave(AutoDirect(s, f, aN, bN), f,
                   s.pl.axis[f.axis_X], s.pl.axis[f.axis_Y], aN, bN)
    ELSE s

RECURSIVE AutoLoop(_, _, _, _)
AutoLoop(s, aN, bN, fN) ==
    IF fN >= PLOT_FIGURE_MAX THEN s
    ELSE AutoLoop(AutoFigure(s, s.pl.figure[fN], aN, bN), aN, bN, fN + 1)

(* When a range was found the axis takes the transform that lays it over   *)
(* the viewport widened by layout_mark; the viewport is set by the layout  *)
(* pass, and the transform is the input `fit`.                             *)
AutoEnd(s, aN, fit) ==
    IF s.acc.started # 0
    THEN [s.pl EXCEPT !.axis[aN].scale = fit.scale,
                      !.axis[aN].offset = fit.offset]
    ELSE s.pl

plotAxisScaleAutoCond(pl, aN, bN, fit) ==
    IF aN < 0 \/ aN >= PLOT_AXES_MAX THEN pl
    ELSE IF bN < -1 \/ bN >= PLOT_AXES_MAX THEN pl
    ELSE IF pl.axis[aN].busy = AXIS_FREE THEN pl
    ELSE IF pl.axis[aN].slave # 0 THEN pl
    ELSE AutoEnd(AutoLoop([pl |-> pl,
                           acc |-> [started |-> 0, fmin |-> 0, fmax |-> 0]],
                          aN, bN, 0), aN, fit)

(* The store `pl->axis[aN].lock_scale = 1` of plotAxisScaleAuto.  For aN   *)
(* outside the array it is a store outside axis[]: it is recorded in oob   *)
(* and lands where `ub` says, in memory the engine does not use or on a    *)
(* field of plot_t.                                                        *)
AxisLockStore(pl, aN, ub) ==
    IF aN >= 0 /\ aN < PLOT_AXES_MAX
    THEN [pl EXCEPT !.axis[aN].lock_scale = 1]
    ELSE IF ub = "on_X" THEN [pl EXCEPT !.oob = TRUE, !.on_X = 1]
    ELSE IF ub = "on_Y" THEN [pl EXCEPT !.oob = TRUE, !.on_Y = 1]
    ELSE [pl EXCEPT !.oob = TRUE]

plotAxisScaleAuto(pl, aN, fit, ub) ==
    AxisLockStore(plotAxisScaleAutoCond(pl, aN, -1, fit), aN, ub)

----------------------------------------------------------------------------
(* Slave axes.                                                             *)

(* plotAxisSlave: some busy slave axis has aN as its base *)
AxisIsBase(pl, aN) ==
    \E N \in AxisIds : /\ pl.axis[N].busy # AXIS_FREE
                       /\ pl.axis[N].slave # 0
                       /\ pl.axis[N].slave_N = aN

(* the focus follows a focused axis to its base *)
SlaveFocus(pl, aN, bN) ==
    [pl EXCEPT !.on_X = IF aN = pl.on_X THEN bN ELSE pl.on_X,
               !.on_Y = IF aN = pl.on_Y THEN bN ELSE pl.on_Y]

SlaveEnable(pl, aN, bN, scale, offset) ==
    IF pl.axis[aN].slave = 0
    THEN SlaveFocus([pl EXCEPT !.axis[aN].slave = 1,
                               !.axis[aN].slave_N = bN,
                               !.axis[aN].scale = scale,
                               !.axis[aN].offset = offset], aN, bN)
    ELSE pl

SlaveHold(pl, aN, bN, a, b) ==
    IF a.slave = 0
    THEN SlaveFocus([pl EXCEPT !.axis[aN].slave = 1,
                               !.axis[aN].slave_N = bN,
                               !.axis[aN].scale = FDiv(a.scale, b.scale),
                               !.axis[aN].offset =
                                    FDiv(FMulAdd(b.offset, -1, a.offset),
                                         b.scale)], aN, bN)
    ELSE pl

SlaveDisable(pl, aN, a, b) ==
    IF a.slave # 0
    THEN [pl EXCEPT !.axis[aN].slave = 0,
                    !.axis[aN].scale = FMulAdd(a.scale, b.scale, 0),
                    !.axis[aN].offset = FMulAdd(a.offset, b.scale, b.offset)]
    ELSE pl

(* plotAxisSlave past the check of aN, with bN as the action takes it *)
SlaveChecked(pl, aN, bN, scale, offset, action) ==
    IF bN < 0 \/ bN >= PLOT_AXES_MAX THEN pl
    ELSE IF bN = aN THEN pl
    ELSE IF pl.axis[bN].slave # 0 THEN pl
    ELSE IF AxisIsBase(pl, aN) THEN pl
    ELSE IF action = AXIS_SLAVE_ENABLE
         THEN SlaveEnable(pl, aN, bN, scale, offset)
    ELSE IF action = AXIS_SLAVE_HOLD_AS_IS
         THEN SlaveHold(pl, aN, bN, pl.axis[aN], pl.axis[bN])
    ELSE SlaveDisable(pl, aN, pl.axis[aN], pl.axis[bN])

plotAxisSlave(pl, aN, bN, scale, offset, action) ==
    IF aN < 0 \/ aN >= PLOT_AXES_MAX THEN pl
    ELSE SlaveChecked(pl, aN,
                      IF action = AXIS_SLAVE_DISABLE
                      THEN pl.axis[aN].slave_N ELSE bN,
                      scale, offset, action)

(* The plot area, as the layout pass leaves it. *)
viewport == [min_x |-> 0, max_x |-> 1, min_y |-> 0, max_y |-> 1]

(* plotAxisConv: the value fval on the axis aN, through the base of a      *)
(* slave axis and onto the viewport.                                       *)
AxisConvOwn(a, b) ==
    IF a.slave # 0
    THEN [scale  |-> FMulAdd(a.scale, b.scale, 0),
          offset |-> FMulAdd(a.offset, b.scale, b.offset)]
    ELSE [scale |-> a.scale, offset |-> a.offset]

AxisConvView(a, s, vp) ==
    IF a.busy = AXIS_BUSY_X
    THEN [scale  |-> FMulAdd(s.scale, vp.max_x - vp.min_x, 0),
          offset |-> FMulAdd(s.offset, vp.max_x - vp.min_x, vp.min_x)]
    ELSE IF a.busy = AXIS_BUSY_Y
    THEN [scale  |-> FMulAdd(s.scale, vp.min_y - vp.max_y, 0),
          offset |-> FMulAdd(s.offset, vp.min_y - vp.max_y, vp.max_y)]
    ELSE s

AxisConvValue(s, fval) == FMulAdd(fval, s.scale, s.offset)

plotAxisConv(pl, aN, fval) ==
    AxisConvValue(AxisConvView(pl.axis[aN],
                               AxisConvOwn(pl.axis[aN],
                                           pl.axis[pl.axis[aN].slave_N]),
                               viewport), fval)

----------------------------------------------------------------------------
(* plotAxisRemove.                                                         *)

(* One end (X or Y) of a figure that lies on the removed axis: the column  *)
(* is replaced by the scaled derived column when the axis is a slave, and  *)
(* the end moves to the base, or to the focused axis otherwise.            *)
RemoveSlaveX(g, N, aN) ==
    [g.pl EXCEPT !.figure[N].column_X =
                    IF g.ret # -1 THEN g.ret ELSE g.pl.figure[N].column_X,
                 !.figure[N].axis_X = g.pl.axis[aN].slave_N]

RemoveSlaveY(g, N, aN) ==
    [g.pl EXCEPT !.figure[N].column_Y =
                    IF g.ret # -1 THEN g.ret ELSE g.pl.figure[N].column_Y,
                 !.figure[N].axis_Y = g.pl.axis[aN].slave_N]

RemoveEndX(pl, N, aN) ==
    IF pl.figure[N].axis_X # aN THEN pl
    ELSE IF pl.axis[aN].slave # 0
    THEN RemoveSlaveX(plotGetSubtractScale(pl, pl.figure[N].data_N,
                          pl.figure[N].column_X,
                          pl.axis[aN].scale, pl.axis[aN].offset), N, aN)
    ELSE [pl EXCEPT !.figure[N].axis_X = pl.on_X]

RemoveEndY(pl, N, aN) ==
    IF pl.figure[N].axis_Y # aN THEN pl
    ELSE IF pl.axis[aN].slave # 0
    THEN RemoveSlaveY(plotGetSubtractScale(pl, pl.figure[N].data_N,
                          pl.figure[N].column_Y,
                          pl.axis[aN].scale, pl.axis[aN].offset), N, aN)
    ELSE [pl EXCEPT !.figure[N].axis_Y = pl.on_Y]

RECURSIVE RemoveFigures(_, _, _)
RemoveFigures(pl, aN, N) ==
    IF N >= PLOT_FIGURE_MAX THEN pl
    ELSE IF pl.figure[N].busy # 0
    THEN RemoveFigures(RemoveEndY(RemoveEndX(pl, N, aN), N, aN), aN, N + 1)
    ELSE RemoveFigures(pl, aN, N + 1)

(* the busy slaves of the removed axis are released *)
RECURSIVE RemoveSlaves(_, _, _)
RemoveSlaves(pl, aN, N) ==
    IF N >= PLOT_AXES_MAX THEN pl
    ELSE IF /\ pl.axis[N].busy # AXIS_FREE
            /\ pl.axis[N].slave # 0
            /\ pl.axis[N].slave_N = aN
    THEN RemoveSlaves(plotAxisSlave(pl, N, -1, 0, 0, AXIS_SLAVE_DISABLE),
                      aN, N + 1)
    ELSE RemoveSlaves(pl, aN, N + 1)

plotAxisRemove(pl, aN) ==
    IF aN < 0 \/ aN >= PLOT_AXES_MAX THEN pl
    ELSE IF aN = pl.on_X \/ aN = pl.on_Y THEN pl
    ELSE [RemoveSlaves(RemoveFigures(pl, aN, 0), aN, 0)
            EXCEPT !.axis[aN].busy = AXIS_FREE, !.axis[aN].slave = 0]

----------------------------------------------------------------------------
(* Figures.                                                                *)

default_drawing == "LINE"
default_width   == 2

FigureAddAxisX(pl, aX) ==
    IF pl.axis[aX].busy = AXIS_FREE
    THEN [pl EXCEPT !.axis[aX].busy = AXIS_BUSY_X, !.axis[aX].lock_scale = 1]
    ELSE pl

FigureAddAxisY(pl, aY) ==
    IF pl.axis[aY].busy = AXIS_FREE
    THEN [pl EXCEPT !.axis[aY].busy = AXIS_BUSY_Y, !.axis[aY].lock_scale = 1]
    ELSE pl

FigureAddFocus(pl, aX, aY) ==
    [pl EXCEPT !.on_X = IF pl.on_X < 0 THEN aX ELSE pl.on_X,
               !.on_Y = IF pl.on_Y < 0 THEN aY ELSE pl.on_Y]

FigureAddStore(pl, fN, dN, nX, nY, aX, aY) ==
    [pl EXCEPT !.draw[fN].sketch = "FINISHED",
               !.figure[fN] = [busy |-> 1, hidden |-> 0,
                               drawing |-> default_drawing,
                               width |-> default_width,
                               data_N |-> dN,
                               column_X |-> nX, column_Y |-> nY,
                               axis_X |-> aX, axis_Y |-> aY]]

plotFigureAdd(pl, fN, dN, nX, nY, aX, aY) ==
    IF fN < 0 \/ fN >= PLOT_FIGURE_MAX THEN pl
    ELSE IF dN < 0 \/ dN >= PLOT_DATASET_MAX THEN pl
    ELSE IF pl.data[dN].column_N < 1 THEN pl
    ELSE IF nX < -1 \/ nX >= pl.data[dN].column_N + PLOT_SUBTRACT THEN pl
    ELSE IF nY < -1 \/ nY >= pl.data[dN].column_N + PLOT_SUBTRACT THEN pl
    ELSE IF aX < 0 \/ aX >= PLOT_AXES_MAX THEN pl
    ELSE IF aY < 0 \/ aY >= PLOT_AXES_MAX THEN pl
    ELSE IF \/ aX = aY
            \/ pl.axis[aX].busy = AXIS_BUSY_Y
            \/ pl.axis[aY].busy = AXIS_BUSY_X THEN pl
    ELSE FigureAddFocus(
            FigureAddAxisY(
                FigureAddAxisX(FigureAddStore(pl, fN, dN, nX, nY, aX, aY), aX),
                aY), aX, aY)

(* plotCheckColumnLinked: column cN of dataset dN is an input of a slot of *)
(* dN (the slot's column_1 holds op.scale.column_1, op.binary.column_1,    *)
(* op.filter.column_1 or op.resample.column_X by mode), or a column of any *)
(* busy figure.                                                            *)
SlotReads(u, cN) ==
    IF u.busy = "SCALE" THEN cN = u.column_1
    ELSE IF u.busy \in {"BINARY_SUBTRACTION", "BINARY_ADDITION",
                        "BINARY_MULTIPLICATION", "BINARY_HYPOTENUSE"}
    THEN cN = u.column_1 \/ cN = u.column_2
    ELSE IF u.busy \in {"FILTER_DIFFERENCE", "FILTER_CUMULATIVE",
                        "FILTER_BITMASK", "FILTER_LOW_PASS"}
    THEN cN = u.column_1
    ELSE IF u.busy = "RESAMPLE" THEN cN = u.column_1
    ELSE FALSE

plotCheckColumnLinked(pl, dN, cN) ==
    \/ \E sN \in SubIds : SlotReads(pl.data[dN].sub[sN], cN)
    \/ \E fN \in FigureIds :
            /\ pl.figure[fN].busy # 0
            /\ (cN = pl.figure[fN].column_X \/ cN = pl.figure[fN].column_Y)

(* plotSubtractGarbage: sweeps over the slots in index order, until a      *)
(* sweep frees nothing.                                                    *)
RECURSIVE GarbageSweep(_, _, _)
GarbageSweep(s, dN, sN) ==
    IF sN >= PLOT_SUBTRACT THEN s
    ELSE IF /\ s.pl.data[dN].sub[sN].busy # "FREE"
            /\ ~plotCheckColumnLinked(s.pl, dN, sN + s.pl.data[dN].column_N)
    THEN GarbageSweep([pl |-> [s.pl EXCEPT !.data[dN].sub[sN].busy = "FREE"],
                       N  |-> s.N + 1], dN, sN + 1)
    ELSE GarbageSweep(s, dN, sN + 1)

RECURSIVE GarbageAgain(_, _)
GarbageAgain(s, dN) ==
    IF s.N # 0
    THEN GarbageAgain(GarbageSweep([pl |-> s.pl, N |-> 0], dN, 0), dN)
    ELSE s.pl

plotSubtractGarbage(pl, dN) ==
    GarbageAgain(GarbageSweep([pl |-> pl, N |-> 0], dN, 0), dN)

(* rX / rY of plotFigureRemove and its kin: no other busy figure shares    *)
(* the X (the Y) axis of fN.                                               *)
AloneOnX(pl, fN) ==
    \A N \in FigureIds :
        (pl.figure[N].busy # 0 /\ N # fN)
            => pl.figure[N].axis_X # pl.figure[fN].axis_X

AloneOnY(pl, fN) ==
    \A N \in FigureIds :
        (pl.figure[N].busy # 0 /\ N # fN)
            => pl.figure[N].axis_Y # pl.figure[fN].axis_Y

(* plotFigureRemove: the focus leaves aN for the first other axis of the   *)
(* same kind that is not a slave, if there is one.                         *)
FocusOffX(pl, aN) ==
    IF pl.on_X # aN THEN pl
    ELSE LET N == FirstOf({N \in AxisIds : /\ N # aN
                                           /\ pl.axis[N].busy = AXIS_BUSY_X
                                           /\ pl.axis[N].slave = 0})
         IN  IF N # -1 THEN [pl EXCEPT !.on_X = N] ELSE pl

FocusOffY(pl, aN) ==
    IF pl.on_Y # aN THEN pl
    ELSE LET N == FirstOf({N \in AxisIds : /\ N # aN
                                           /\ pl.axis[N].busy = AXIS_BUSY_Y
                                           /\ pl.axis[N].slave = 0})
         IN  IF N # -1 THEN [pl EXCEPT !.on_Y = N] ELSE pl

RemoveUnlessFocusX(pl, aN) ==
    IF pl.on_X # aN THEN plotAxisRemove(pl, aN) ELSE pl

RemoveUnlessFocusY(pl, aN) ==
    IF pl.on_Y # aN THEN plotAxisRemove(pl, aN) ELSE pl

FigureRemoveX(pl, fN, rX) ==
    IF rX THEN RemoveUnlessFocusX(FocusOffX(pl, pl.figure[fN].axis_X),
                                  pl.figure[fN].axis_X)
    ELSE pl

FigureRemoveY(pl, fN, rY) ==
    IF rY THEN RemoveUnlessFocusY(FocusOffY(pl, pl.figure[fN].axis_Y),
                                  pl.figure[fN].axis_Y)
    ELSE pl

FigureRemoveAxes(pl, fN, rX, rY) ==
    FigureRemoveY(FigureRemoveX([pl EXCEPT !.figure[fN].busy = 0], fN, rX),
                  fN, rY)

plotFigureRemove(pl, fN) ==
    IF fN < 0 \/ fN >= PLOT_FIGURE_MAX THEN pl
    ELSE plotSubtractGarbage(
            FigureRemoveAxes(pl, fN, AloneOnX(pl, fN), AloneOnY(pl, fN)),
            pl.figure[fN].data_N)

(* plotFigureMoveAxes: the figure moves onto the focused pair of axes *)
MoveAxisX(pl, fN, aN, rX) ==
    IF aN # pl.on_X
    THEN IF rX THEN plotAxisRemove([pl EXCEPT !.figure[fN].axis_X = pl.on_X], aN)
         ELSE [pl EXCEPT !.figure[fN].axis_X = pl.on_X]
    ELSE pl

MoveAxisY(pl, fN, aN, rY) ==
    IF aN # pl.on_Y
    THEN IF rY THEN plotAxisRemove([pl EXCEPT !.figure[fN].axis_Y = pl.on_Y], aN)
         ELSE [pl EXCEPT !.figure[fN].axis_Y = pl.on_Y]
    ELSE pl

MoveAxisYThen(pl, fN, rY) == MoveAxisY(pl, fN, pl.figure[fN].axis_Y, rY)

plotFigureMoveAxes(pl, fN) ==
    IF fN < 0 \/ fN >= PLOT_FIGURE_MAX THEN pl
    ELSE IF pl.on_X < 0 \/ pl.on_X >= PLOT_AXES_MAX THEN pl
    ELSE IF pl.on_Y < 0 \/ pl.on_Y >= PLOT_AXES_MAX THEN pl
    ELSE MoveAxisYThen(MoveAxisX(pl, fN, pl.figure[fN].axis_X,
                                 AloneOnX(pl, fN)),
                       fN, AloneOnY(pl, fN))

plotGetFreeAxis(pl) ==
    FirstOf({N \in AxisIds : pl.axis[N].busy = AXIS_FREE})

(* plotFigureMakeIndividualAxes: [pl, ok]; ok = 0 when the search for a    *)
(* free axis failed and the function returned.                             *)
IndividualX(pl, fN, aN, fit) ==
    IF aN # -1
    THEN [pl |-> plotAxisScaleAuto(
                    [pl EXCEPT !.axis[aN].busy = AXIS_BUSY_X,
                               !.figure[fN].axis_X = aN], aN, fit, "none"),
          ok |-> 1]
    ELSE [pl |-> pl, ok |-> 0]

IndividualY(pl, fN, aN, fit) ==
    IF aN # -1
    THEN plotAxisScaleAuto([pl EXCEPT !.axis[aN].busy = AXIS_BUSY_Y,
                                      !.figure[fN].axis_Y = aN],
                           aN, fit, "none")
    ELSE pl

IndividualYThen(s, fN, rY, fit) ==
    IF s.ok = 0 THEN s.pl
    ELSE IF ~rY THEN IndividualY(s.pl, fN, plotGetFreeAxis(s.pl), fit)
    ELSE s.pl

plotFigureMakeIndividualAxes(pl, fN, fit) ==
    IF fN < 0 \/ fN >= PLOT_FIGURE_MAX THEN pl
    ELSE IndividualYThen(
            IF ~AloneOnX(pl, fN)
            THEN IndividualX(pl, fN, plotGetFreeAxis(pl), fit)
            ELSE [pl |-> pl, ok |-> 1],
            fN, AloneOnY(pl, fN), fit)

plotFigureExchange(pl, fN, fN_1) ==
    IF fN < 0 \/ fN >= PLOT_FIGURE_MAX THEN pl
    ELSE IF fN_1 < 0 \/ fN_1 >= PLOT_FIGURE_MAX THEN pl
    ELSE [pl EXCEPT !.figure[fN_1] = pl.figure[fN],
                    !.figure[fN] = pl.figure[fN_1]]

----------------------------------------------------------------------------
(* Figures on derived columns.                                             *)

plotGetFreeFigure(pl) ==
    FirstOf({N \in FigureIds : pl.figure[N].busy = 0})

ScaledColumnX(g, fN_1) ==
    IF g.ret # -1 THEN [g.pl EXCEPT !.figure[fN_1].column_X = g.ret] ELSE g.pl

ScaledColumnY(g, fN_1) ==
    IF g.ret # -1 THEN [g.pl EXCEPT !.figure[fN_1].column_Y = g.ret] ELSE g.pl

plotFigureSubtractScale(pl, fN_1, aBUSY, scale, offset) ==
    IF fN_1 < 0 \/ fN_1 >= PLOT_FIGURE_MAX THEN pl
    ELSE IF aBUSY = AXIS_BUSY_X
    THEN ScaledColumnX(plotGetSubtractScale(pl, pl.figure[fN_1].data_N,
                            pl.figure[fN_1].column_X, scale, offset), fN_1)
    ELSE IF aBUSY = AXIS_BUSY_Y
    THEN ScaledColumnY(plotGetSubtractScale(pl, pl.figure[fN_1].data_N,
                            pl.figure[fN_1].column_Y, scale, offset), fN_1)
    ELSE pl

(* plotFigureSubtractTimeUnwrap: the X column of the figure becomes the    *)
(* unwrapped column, when a slot was got.                                  *)
plotFigureSubtractTimeUnwrap(pl, fN_1) ==
    IF fN_1 < 0 \/ fN_1 >= PLOT_FIGURE_MAX THEN pl
    ELSE ScaledColumnX(plotGetSubtractTimeUnwrap(pl, pl.figure[fN_1].data_N,
                            pl.figure[fN_1].column_X), fN_1)

(* plotFigureSubtractFilter, in the order of the source: the slot, the     *)
(* axis of the new figure, the figure, its scale and the focus.            *)
FilterSlot(pl, fN_1, dN, sN, opSUB, arg_1, arg_2) ==
    plotDataSubtract(
        [pl EXCEPT !.data[dN].sub[sN] =
            [pl.data[dN].sub[sN] EXCEPT
                !.busy = opSUB, !.column_1 = pl.figure[fN_1].column_Y,
                !.arg_1 = arg_1, !.arg_2 = arg_2]],
        dN, sN)

FilterFocusSlave(pl) ==
    [pl EXCEPT !.on_X = IF pl.axis[pl.on_X].slave # 0
                        THEN pl.axis[pl.on_X].slave_N ELSE pl.on_X,
               !.on_Y = IF pl.axis[pl.on_Y].slave # 0
                        THEN pl.axis[pl.on_Y].slave_N ELSE pl.on_Y]

FilterFocus(pl, fN) ==
    FilterFocusSlave([pl EXCEPT !.on_X = pl.figure[fN].axis_X,
                                !.on_Y = pl.figure[fN].axis_Y])

FilterScale(pl, fN, opSUB, fit) ==
    IF opSUB = "FILTER_LOW_PASS" THEN pl
    ELSE FilterFocus(plotAxisScaleAutoCond(pl, pl.figure[fN].axis_Y,
                                           pl.figure[fN].axis_X, fit), fN)

FilterLook(pl, fN, fN_1) ==
    [pl EXCEPT !.figure[fN].drawing = pl.figure[fN_1].drawing,
               !.figure[fN].width = pl.figure[fN_1].width]

FilterFigure(pl, fN, fN_1, dN, cN, aN, opSUB, fit) ==
    FilterScale(
        FilterLook(plotFigureAdd(pl, fN, dN, pl.figure[fN_1].column_X, cN,
                                 pl.figure[fN_1].axis_X, aN), fN, fN_1),
        fN, opSUB, fit)

FilterAxis(pl, fN, fN_1, dN, cN, aN, opSUB, fit) ==
    IF opSUB = "FILTER_LOW_PASS"
    THEN FilterFigure(pl, fN, fN_1, dN, cN, pl.figure[fN_1].axis_Y, opSUB, fit)
    ELSE IF aN # -1
    THEN FilterFigure([pl EXCEPT !.axis[aN].busy = AXIS_BUSY_Y],
                      fN, fN_1, dN, cN, aN, opSUB, fit)
    ELSE FilterFigure(pl, fN, fN_1, dN, cN, pl.figure[fN_1].axis_Y, opSUB, fit)

FilterFound(pl, fN, fN_1, dN, sN, opSUB, arg_1, arg_2, fit) ==
    IF fN = -1 THEN pl
    ELSE IF sN = -1 THEN pl
    ELSE FilterAxis(FilterSlot(pl, fN_1, dN, sN, opSUB, arg_1, arg_2),
                    fN, fN_1, dN, sN + pl.data[dN].column_N,
                    plotGetFreeAxis(pl), opSUB, fit)

plotFigureSubtractFilter(pl, fN_1, opSUB, arg_1, arg_2, fit) ==
    IF fN_1 < 0 \/ fN_1 >= PLOT_FIGURE_MAX THEN pl
    ELSE FilterFound(pl, plotGetFreeFigure(pl), fN_1, pl.figure[fN_1].data_N,
                     plotGetFreeSubtract(pl, pl.figure[fN_1].data_N),
                     opSUB, arg_1, arg_2, fit)

(* plotFigureSubtractPolifit.  The viewport filter handed to the fit: the  *)
(* X axis composed with its base, the Y scale composed with its base, and  *)
(* for a slave Y axis the offset taken from offset_X.                      *)
PolifitFilterY(a, b, fX) ==
    [scale_X |-> fX.scale, offset_X |-> fX.offset,
     scale_Y  |-> IF a.slave # 0 THEN FMulAdd(a.scale, b.scale, 0)
                  ELSE a.scale,
     offset_Y |-> IF a.slave # 0 THEN FMulAdd(fX.offset, b.scale, b.offset)
                  ELSE a.offset]

PolifitFilter(pl, fN_1) ==
    PolifitFilterY(pl.axis[pl.figure[fN_1].axis_Y],
                   pl.axis[pl.axis[pl.figure[fN_1].axis_Y].slave_N],
                   AxisConvOwn(pl.axis[pl.figure[fN_1].axis_X],
                               pl.axis[pl.axis[pl.figure[fN_1].axis_X].slave_N]))

(* The slot takes SUBTRACT_POLYFIT with the figure's columns and the new   *)
(* figure plots the slot's column on the axes of fN_1.  The coefficients   *)
(* are those of the least-squares library, so the values of the fitted     *)
(* column are left out.                                                    *)
PolifitSlot(pl, fN_1, dN, sN, poly_N) ==
    [pl EXCEPT !.data[dN].sub[sN] =
        [pl.data[dN].sub[sN] EXCEPT
            !.busy = "POLYFIT", !.column_1 = pl.figure[fN_1].column_X,
            !.column_2 = pl.figure[fN_1].column_Y, !.arg_1 = poly_N]]

PolifitFound(pl, fN, fN_1, dN, sN, poly_N) ==
    IF fN = -1 THEN pl
    ELSE IF sN = -1 THEN pl
    ELSE FilterLook(
            plotFigureAdd(PolifitSlot(pl, fN_1, dN, sN, poly_N), fN, dN,
                          pl.figure[fN_1].column_X, sN + pl.data[dN].column_N,
                          pl.figure[fN_1].axis_X, pl.figure[fN_1].axis_Y),
            fN, fN_1)

plotFigureSubtractPolifit(pl, fN_1, poly_N) ==
    IF fN_1 < 0 \/ fN_1 >= PLOT_FIGURE_MAX THEN pl
    ELSE IF poly_N < 0 \/ poly_N > PLOT_POLYFIT_MAX THEN pl
    ELSE PolifitFound(pl, plotGetFreeFigure(pl), fN_1, pl.figure[fN_1].data_N,
                      plotGetFreeSubtract(pl, pl.figure[fN_1].data_N), poly_N)

----------------------------------------------------------------------------
(* plotFigureSubtractSwitch: the binary result figure of two figures.      *)

(* plotGetSubtractResample: [pl, ret].  The slot keeps op.resample as      *)
(* column_1 = column_X, arg_1 = column_in_X, column_2 = column_in_Y.       *)
ResampleSlot(pl, dN, sN, cN_X, in_dN, in_cN_X, in_cN_Y) ==
    IF sN = -1 THEN [pl |-> pl, ret |-> -1]
    ELSE [pl |-> plotDataSubtract(
                    [pl EXCEPT !.data[dN].sub[sN] =
                        [pl.data[dN].sub[sN] EXCEPT
                            !.busy = "RESAMPLE", !.column_1 = cN_X,
                            !.arg_1 = in_cN_X, !.column_2 = in_cN_Y,
                            !.in_data_N = in_dN]],
                    dN, sN),
          ret |-> sN + pl.data[dN].column_N]

plotGetSubtractResample(pl, dN, cN_X, in_dN, in_cN_X, in_cN_Y) ==
    IF dN < 0 \/ dN >= PLOT_DATASET_MAX THEN [pl |-> pl, ret |-> -1]
    ELSE ResampleSlot(pl, dN, plotGetFreeSubtract(pl, dN),
                      cN_X, in_dN, in_cN_X, in_cN_Y)

(* plotGetSubtractBinary: [pl, ret] *)
BinarySlot(pl, dN, sN, opSUB, cN_1, cN_2) ==
    IF sN = -1 THEN [pl |-> pl, ret |-> -1]
    ELSE [pl |-> plotDataSubtract(
                    [pl EXCEPT !.data[dN].sub[sN] =
                        [pl.data[dN].sub[sN] EXCEPT
                            !.busy = opSUB, !.column_1 = cN_1,
                            !.column_2 = cN_2]],
                    dN, sN),
          ret |-> sN + pl.data[dN].column_N]

plotGetSubtractBinary(pl, dN, opSUB, cN_1, cN_2) ==
    IF dN < 0 \/ dN >= PLOT_DATASET_MAX THEN [pl |-> pl, ret |-> -1]
    ELSE IF cN_1 < -1 \/ cN_1 >= pl.data[dN].column_N + PLOT_SUBTRACT
    THEN [pl |-> pl, ret |-> -1]
    ELSE IF cN_2 < -1 \/ cN_2 >= pl.data[dN].column_N + PLOT_SUBTRACT
    THEN [pl |-> pl, ret |-> -1]
    ELSE BinarySlot(pl, dN, plotGetFreeSubtract(pl, dN), opSUB, cN_1, cN_2)

(* plotFigureSubtractAdd: [pl, ret], ret = 0 (AXIS_FREE) or AXIS_BUSY_Y *)
SubtractAddFigure(g, fN, fN_1, dN, aN_Y) ==
    IF g.ret = -1 THEN [pl |-> g.pl, ret |-> AXIS_FREE]
    ELSE IF aN_Y # -1
    THEN [pl |-> FilterLook(
                    plotFigureAdd(
                        [g.pl EXCEPT !.axis[aN_Y].busy = AXIS_BUSY_Y],
                        fN, dN, g.pl.figure[fN_1].column_X, g.ret,
                        g.pl.figure[fN_1].axis_X, aN_Y),
                    fN, fN_1),
          ret |-> AXIS_BUSY_Y]
    ELSE [pl |-> FilterLook(
                    plotFigureAdd(g.pl, fN, dN, g.pl.figure[fN_1].column_X,
                        g.ret, g.pl.figure[fN_1].axis_X,
                        g.pl.figure[fN_1].axis_Y),
                    fN, fN_1),
          ret |-> AXIS_BUSY_Y]

SubtractAddBinary(g, fN, fN_1, dN, opSUB) ==
    IF g.ret = -1 THEN [pl |-> g.pl, ret |-> AXIS_FREE]
    ELSE SubtractAddFigure(
            plotGetSubtractBinary(g.pl, dN, opSUB,
                                  g.pl.figure[fN_1].column_Y, g.ret),
            fN, fN_1, dN, plotGetFreeAxis(g.pl))

SubtractAddResample(pl, a, b) ==
    IF a.data_N # b.data_N \/ a.column_X # b.column_X
    THEN plotGetSubtractResample(pl, a.data_N, a.column_X,
                                 b.data_N, b.column_X, b.column_Y)
    ELSE [pl |-> pl, ret |-> b.column_Y]

plotFigureSubtractAdd(pl, fN, fN_1, fN_2, opSUB) ==
    IF pl.figure[fN_1].axis_X # pl.figure[fN_2].axis_X
    THEN [pl |-> pl, ret |-> AXIS_FREE]
    ELSE SubtractAddBinary(
            SubtractAddResample(pl, pl.figure[fN_1], pl.figure[fN_2]),
            fN, fN_1, pl.figure[fN_1].data_N, opSUB)

(* plotFigureSubtractBinaryLinked: <<fN_1, fN_2>>, the first busy figures  *)
(* on the two input columns of the slot behind the Y column of figure fN.  *)
LinkedFigure(pl, dN, cN) ==
    FirstOf({N \in FigureIds : /\ pl.figure[N].busy # 0
                               /\ pl.figure[N].data_N = dN
                               /\ pl.figure[N].column_Y = cN})

LinkedInput(pl, dN, cN, sE, second) ==
    IF sE >= 0 /\ sE < PLOT_SUBTRACT
    THEN IF pl.data[dN].sub[sE].busy = "RESAMPLE"
         THEN LinkedFigure(pl,
                  IF second THEN pl.data[dN].sub[sE].in_data_N ELSE dN,
                  pl.data[dN].sub[sE].column_2)
         ELSE LinkedFigure(pl, dN, cN)
    ELSE LinkedFigure(pl, dN, cN)

LinkedSlot(pl, dN, sN, opSUB) ==
    IF sN >= 0 /\ sN < PLOT_SUBTRACT
    THEN IF pl.data[dN].sub[sN].busy = opSUB
         THEN <<LinkedInput(pl, dN, pl.data[dN].sub[sN].column_1,
                    pl.data[dN].sub[sN].column_1 - pl.data[dN].column_N,
                    FALSE),
                LinkedInput(pl, dN, pl.data[dN].sub[sN].column_2,
                    pl.data[dN].sub[sN].column_2 - pl.data[dN].column_N,
                    TRUE)>>
         ELSE <<-1, -1>>
    ELSE <<-1, -1>>

plotFigureSubtractBinaryLinked(pl, fN, opSUB) ==
    LinkedSlot(pl, pl.figure[fN].data_N,
               pl.figure[fN].column_Y
                   - pl.data[pl.figure[fN].data_N].column_N, opSUB)

(* The one visible figure fN is a result: it is hidden and its inputs show. *)
SwitchToInputs(pl, fN, fNQ) ==
    IF fNQ[1] # -1 /\ fNQ[2] # -1
    THEN [pl EXCEPT !.figure =
                        [N \in FigureIds |->
                            IF N = fNQ[1] \/ N = fNQ[2]
                            THEN [pl.figure[N] EXCEPT !.hidden = 0]
                            ELSE IF N = fN
                            THEN [pl.figure[N] EXCEPT !.hidden = 1]
                            ELSE pl.figure[N]],
                    !.on_X = pl.figure[fNQ[1]].axis_X,
                    !.on_Y = pl.figure[fNQ[1]].axis_Y]
    ELSE pl

(* the two inputs are hidden and the result figure fN shows *)
SwitchHide(pl, fN, fN_1, fN_2) ==
    [pl EXCEPT !.figure =
        [N \in FigureIds |->
            IF N = fN THEN [pl.figure[N] EXCEPT !.hidden = 0]
            ELSE IF N = fN_1 \/ N = fN_2
            THEN [pl.figure[N] EXCEPT !.hidden = 1]
            ELSE pl.figure[N]]]

(* The result figure fN of the two visible figures exists: it shows. *)
SwitchScale(ph, f, a, b, fit) ==
    IF f.axis_X = a.axis_X /\ f.axis_X = b.axis_X
    THEN plotAxisScaleAutoCond(ph, f.axis_Y, f.axis_X, fit)
    ELSE IF f.axis_Y = a.axis_Y /\ f.axis_Y = b.axis_Y
    THEN plotAxisScaleAutoCond(ph, f.axis_X, f.axis_Y, fit)
    ELSE ph

SwitchToResult(pl, fN, fN_1, fN_2, fit) ==
    FilterFocus(SwitchScale(SwitchHide(pl, fN, fN_1, fN_2), pl.figure[fN],
                            pl.figure[fN_1], pl.figure[fN_2], fit), fN)

(* No result figure yet: plotFigureSubtractAdd makes it on the free figure; *)
(* the inputs are hidden whether or not plotFigureAdd took the figure.      *)
SwitchAddedHide(pl, fN_1, fN_2) ==
    [pl EXCEPT !.figure =
        [N \in FigureIds |->
            IF N = fN_1 \/ N = fN_2 THEN [pl.figure[N] EXCEPT !.hidden = 1]
            ELSE pl.figure[N]]]

SwitchAdded(g, fN, fN_1, fN_2, fit) ==
    IF g.ret = AXIS_FREE THEN FilterFocusSlave(g.pl)
    ELSE FilterFocus(
            plotAxisScaleAutoCond(SwitchAddedHide(g.pl, fN_1, fN_2),
                g.pl.figure[fN].axis_Y, g.pl.figure[fN].axis_X, fit), fN)

SwitchResult(pl, fN_1, fN_2, opSUB) ==
    FirstOf({N \in FigureIds :
                /\ pl.figure[N].busy # 0
                /\ plotFigureSubtractBinaryLinked(pl, N, opSUB)
                      \in {<<fN_1, fN_2>>, <<fN_2, fN_1>>}})

SwitchPair(pl, fN, fN_1, fN_2, fF, opSUB, fit) ==
    IF fN # -1 THEN SwitchToResult(pl, fN, fN_1, fN_2, fit)
    ELSE IF fF = -1 THEN pl
    ELSE SwitchAdded(plotFigureSubtractAdd(pl, fF, fN_1, fN_2, opSUB),
                     fF, fN_1, fN_2, fit)

(* plotFigureSubtractSwitch: the visible figures are counted; one visible  *)
(* result gives way to its inputs, two visible figures to their result,    *)
(* which is made when no busy figure is linked to the two.                 *)
SwitchCounted(pl, fNQ, fN_1, opSUB, fit) ==
    IF Cardinality(fNQ) = 1
    THEN FilterFocusSlave(
            SwitchToInputs(pl, fN_1,
                plotFigureSubtractBinaryLinked(pl, fN_1, opSUB)))
    ELSE IF Cardinality(fNQ) = 2
    THEN SwitchPair(pl, SwitchResult(pl, fN_1, FirstOf(fNQ \ {fN_1}), opSUB),
                    fN_1, FirstOf(fNQ \ {fN_1}), plotGetFreeFigure(pl),
                    opSUB, fit)
    ELSE FilterFocusSlave(pl)

plotFigureSubtractSwitch(pl, opSUB, fit) ==
    SwitchCounted(pl, {N \in FigureIds : pl.figure[N].busy # 0
                                         /\ pl.figure[N].hidden = 0},
                  FirstOf({N \in FigureIds : pl.figure[N].busy # 0
                                             /\ pl.figure[N].hidden = 0}),
                  opSUB, fit)

----------------------------------------------------------------------------
(* Sketch lists.                                                           *)

(* the chunks of the list from hN are pushed onto the garbage list *)
RECURSIVE SketchListDrop(_, _)
SketchListDrop(pl, hN) ==
    IF hN < 0 THEN pl
    ELSE SketchListDrop([pl EXCEPT !.sketch[hN].linked = pl.sketch_list_garbage,
                                   !.sketch_list_garbage = hN],
                        pl.sketch[hN].linked)

SketchGarbageEnd(pl) ==
    [pl EXCEPT !.sketch_list_todraw = pl.sketch_list_current,
               !.sketch_list_current = -1,
               !.sketch_list_current_end = -1,
               !.draw = [N \in FigureIds |->
                            [pl.draw[N] EXCEPT !.list_self = -1]]]

plotSketchGarbage_NoDrop(pl) == SketchGarbageEnd(pl)

plotSketchGarbage(pl) ==
    SketchGarbageEnd(SketchListDrop(pl, pl.sketch_list_todraw))

SketchCleanEnd(pl) ==
    [pl EXCEPT !.sketch_list_todraw = -1,
               !.sketch_list_current = -1,
               !.sketch_list_current_end = -1,
               !.draw = [N \in FigureIds |->
                            [pl.draw[N] EXCEPT !.list_self = -1]],
               !.draw_in_progress = 0]

SketchCleanCurrent(pl) == SketchListDrop(pl, pl.sketch_list_current)

plotSketchClean(pl) ==
    SketchCleanEnd(SketchCleanCurrent(SketchListDrop(pl, pl.sketch_list_todraw)))

plotFigureClean(pl) ==
    plotSketchClean(
        [pl EXCEPT !.figure = [fN \in FigureIds |->
                                [pl.figure[fN] EXCEPT !.busy = 0, !.hidden = 0]],
                   !.axis = [aN \in AxisIds |->
                                [pl.axis[aN] EXCEPT !.busy = AXIS_FREE,
                                                    !.slave = 0]],
                   !.on_X = -1, !.on_Y = -1])

(* plotSketchDataChunkSetUp: the figure keeps its chunk while it has room  *)
(* and the figure draws as before, or takes the first chunk of the garbage *)
(* list, linked after the figure's own last chunk or at the end of the     *)
(* current list.  A chunk holds PLOT_SKETCH_CHUNK_SIZE numbers, two for a  *)
(* point.                                                                  *)
SetUpLinkOwn(pl, fN, hN, own) ==
    [pl EXCEPT !.sketch[hN].linked = pl.sketch[own].linked,
               !.sketch[own].linked = hN,
               !.sketch_list_current_end =
                    IF own = pl.sketch_list_current_end THEN hN
                    ELSE pl.sketch_list_current_end,
               !.draw[fN].list_self = hN]

SetUpLinkEnd(pl, fN, hN) ==
    IF pl.sketch_list_current >= 0
    THEN [pl EXCEPT !.sketch[hN].linked = -1,
                    !.sketch[pl.sketch_list_current_end].linked = hN,
                    !.sketch_list_current_end = hN,
                    !.draw[fN].list_self = hN]
    ELSE [pl EXCEPT !.sketch[hN].linked = -1,
                    !.sketch_list_current = hN,
                    !.sketch_list_current_end = hN,
                    !.draw[fN].list_self = hN]

SetUpLink(pl, fN, hN) ==
    IF pl.draw[fN].list_self >= 0
    THEN SetUpLinkOwn(pl, fN, hN, pl.draw[fN].list_self)
    ELSE SetUpLinkEnd(pl, fN, hN)

SetUpTake(pl, fN, hN) ==
    SetUpLink([pl EXCEPT !.sketch_list_garbage = pl.sketch[hN].linked,
                         !.sketch[hN].figure_N = fN,
                         !.sketch[hN].drawing = pl.figure[fN].drawing,
                         !.sketch[hN].width = pl.figure[fN].width,
                         !.sketch[hN].points = <<>>], fN, hN)

SetUpKeeps(u, f, fN) ==
    /\ u.figure_N = fN
    /\ u.drawing = f.drawing
    /\ u.width = f.width
    /\ 2 * Len(u.points) < PLOT_SKETCH_CHUNK_SIZE

(* A set-up that takes the first chunk of the todraw list when the garbage *)
(* list is empty.                                                          *)
plotSketchDataChunkSetUp_Reuse(pl, fN) ==
    IF /\ pl.draw[fN].list_self >= 0
       /\ SetUpKeeps(pl.sketch[pl.draw[fN].list_self], pl.figure[fN], fN)
    THEN pl
    ELSE IF pl.sketch_list_garbage >= 0
    THEN SetUpTake(pl, fN, pl.sketch_list_garbage)
    ELSE IF pl.sketch_list_todraw >= 0
    THEN SetUpTake([pl EXCEPT !.sketch_list_todraw =
                                   pl.sketch[pl.sketch_list_todraw].linked,
                              !.sketch[pl.sketch_list_todraw].linked = -1],
                   fN, pl.sketch_list_todraw)
    ELSE [pl EXCEPT !.draw[fN].list_self = -1]

plotSketchDataChunkSetUp(pl, fN) ==
    IF /\ pl.draw[fN].list_self >= 0
       /\ SetUpKeeps(pl.sketch[pl.draw[fN].list_self], pl.figure[fN], fN)
    THEN pl
    ELSE IF pl.sketch_list_garbage >= 0
    THEN SetUpTake(pl, fN, pl.sketch_list_garbage)
    ELSE [pl EXCEPT !.draw[fN].list_self = -1]

SketchDataFull(pl, fN, hN) ==
    IF 2 * Len(pl.sketch[hN].points) >= PLOT_SKETCH_CHUNK_SIZE
    THEN plotSketchDataChunkSetUp(pl, fN) ELSE pl

plotSketchDataAdd(pl, fN, X, Y) ==
    IF pl.draw[fN].list_self >= 0
    THEN SketchDataFull(
            [pl EXCEPT !.sketch[pl.draw[fN].list_self].points =
                            Append(@, <<X, Y>>)],
            fN, pl.draw[fN].list_self)
    ELSE pl

----------------------------------------------------------------------------
(* The draw engine.                                                        *)

(* The trial of the rasterizer: whether the primitive meets the viewport.  *)
(* A line meets it when the box around its ends does, a dot when it lies   *)
(* inside.  The answer depends on the arguments only.                      *)
drawLineTrial(vp, x0, y0, x1, y1) ==
    /\ Max2(x0, x1) >= vp.min_x /\ Min2(x0, x1) <= vp.max_x
    /\ Max2(y0, y1) >= vp.min_y /\ Min2(y0, y1) <= vp.max_y

drawDotTrial(vp, x, y) ==
    /\ x >= vp.min_x /\ x <= vp.max_x
    /\ y >= vp.min_y /\ y <= vp.max_y

(* plotDrawFigureTrial: the transform of an end of the figure, through the *)
(* base of a slave axis and onto the viewport.                             *)
TrialAxis(pl, a) ==
    IF a.slave # 0
    THEN [scale  |-> a.scale * pl.axis[a.slave_N].scale,
          offset |-> a.offset * pl.axis[a.slave_N].scale
                        + pl.axis[a.slave_N].offset]
    ELSE [scale |-> a.scale, offset |-> a.offset]

TrialScaleX(pl, f) ==
    LET s == TrialAxis(pl, pl.axis[f.axis_X])
        X == viewport.max_x - viewport.min_x
    IN  [scale |-> s.scale * X, offset |-> s.offset * X + viewport.min_x]

TrialScaleY(pl, f) ==
    LET s == TrialAxis(pl, pl.axis[f.axis_Y])
        Y == viewport.min_y - viewport.max_y
    IN  [scale |-> s.scale * Y, offset |-> s.offset * Y + viewport.max_y]

(* a chunk whose cached range lies off the viewport is not drawn *)
TrialCulledX(u, scale, offset) ==
    /\ u.computed # 0
    /\ IF u.finite # 0
       THEN \/ FMulAdd(u.fmax, scale, offset) < viewport.min_x - 16
            \/ FMulAdd(u.fmin, scale, offset) > viewport.max_x + 16
       ELSE TRUE

TrialCulledY(u, scale, offset) ==
    /\ u.computed # 0
    /\ IF u.finite # 0
       THEN \/ FMulAdd(u.fmin, scale, offset) < viewport.min_y - 16
            \/ FMulAdd(u.fmax, scale, offset) > viewport.max_y + 16
       ELSE TRUE

(* job: looked up when the cursor enters a chunk, 1 on the later passes *)
TrialJob(c, kN, kN_cached) ==
    IF /\ kN # kN_cached
       /\ \/ TrialCulledX(c.rcX.chunk[kN], c.sX.scale, c.sX.offset)
          \/ TrialCulledY(c.rcY.chunk[kN], c.sY.scale, c.sY.offset)
    THEN 0 ELSE 1

(* LINE and DASH.  t is the loop's state: the engine, the cursor, skipped, *)
(* line, the last point and how the loop ended; last_im_X / last_im_Y are  *)
(* the transform of the last point throughout.                             *)
LineSeen(c, t, X, Y, im_X, im_Y) ==
    IF drawLineTrial(viewport,
                     FMulAdd(t.last_X, c.sX.scale, c.sX.offset),
                     FMulAdd(t.last_Y, c.sY.scale, c.sY.offset), im_X, im_Y)
    THEN [t EXCEPT !.pl = plotSketchDataAdd(
                            plotSketchDataAdd(t.pl, c.fN, t.last_X, t.last_Y),
                            c.fN, X, Y)]
    ELSE t

LineDraw(c, t, X, Y, im_X, im_Y) ==
    IF fp_isfinite(im_X) /\ fp_isfinite(im_Y)
    THEN [(IF t.line # 0 THEN LineSeen(c, t, X, Y, im_X, im_Y)
           ELSE [t EXCEPT !.line = 1])
            EXCEPT !.last_X = X, !.last_Y = Y]
    ELSE [t EXCEPT !.line = 0]

LinePoint(c, t, X, Y) ==
    LineDraw(c, t, X, Y, FMulAdd(X, c.sX.scale, c.sX.offset),
                         FMulAdd(Y, c.sY.scale, c.sY.offset))

LineGet(c, t, cur) ==
    IF ~plotDataGetOk(c.d, cur[1])
    THEN [t EXCEPT !.end = "FINISHED"]
    ELSE LinePoint(c, [t EXCEPT !.rN = RingNext(c.d, cur[1]),
                                !.id_N = cur[2] + 1],
                   ColumnOf(c.d, c.xN, cur[1], cur[2]),
                   ColumnOf(c.d, c.yN, cur[1], cur[2]))

LineRow(c, t, job) ==
    IF job # 0 \/ t.line # 0
    THEN LineGet(c, [t EXCEPT !.skipped = 0],
                 IF t.skipped # 0
                 THEN plotDataSkip(c.d, t.rN, t.id_N, -1)
                 ELSE <<t.rN, t.id_N>>)
    ELSE t

LineSkip(c, t, job) ==
    IF job = 0
    THEN [t EXCEPT !.rN = plotDataChunkSkip(c.d, t.rN, t.id_N)[1],
                   !.id_N = plotDataChunkSkip(c.d, t.rN, t.id_N)[2],
                   !.skipped = 1, !.line = 0]
    ELSE t

(* A step that is interrupted at once, wherever its cursor is. *)
TrialTop_Now(c, t) == [t EXCEPT !.end = "INTERRUPTED"]

TrialTop(c, t) ==
    IF t.id_N > c.top_N THEN [t EXCEPT !.end = "INTERRUPTED"] ELSE t

LineAfterRow(c, t, job) ==
    IF t.end = "FINISHED" THEN t ELSE TrialTop(c, LineSkip(c, t, job))

RECURSIVE LineLoop(_, _)
LineLoop(c, t) ==
    IF t.end # "" THEN t
    ELSE LineLoop(c,
            LineAfterRow(c,
                LineRow(c, [t EXCEPT !.kN_cached = plotDataChunkN(c.d, t.rN)],
                        TrialJob(c, plotDataChunkN(c.d, t.rN), t.kN_cached)),
                TrialJob(c, plotDataChunkN(c.d, t.rN), t.kN_cached)))

LineStore(c, t) ==
    IF t.end = "FINISHED"
    THEN [t.pl EXCEPT !.draw[c.fN].sketch = "FINISHED"]
    ELSE [t.pl EXCEPT !.draw[c.fN].sketch = "INTERRUPTED",
                      !.draw[c.fN].rN = t.rN,
                      !.draw[c.fN].id_N = t.id_N,
                      !.draw[c.fN].skipped = t.skipped,
                      !.draw[c.fN].line = t.line,
                      !.draw[c.fN].last_X = t.last_X,
                      !.draw[c.fN].last_Y = t.last_Y]

(* DOT *)
DotDraw(c, t, X, Y, im_X, im_Y) ==
    IF fp_isfinite(im_X) /\ fp_isfinite(im_Y)
                         /\ drawDotTrial(viewport, im_X, im_Y)
    THEN [t EXCEPT !.pl = plotSketchDataAdd(t.pl, c.fN, X, Y)]
    ELSE t

DotPoint(c, t, X, Y) ==
    DotDraw(c, t, X, Y, FMulAdd(X, c.sX.scale, c.sX.offset),
                        FMulAdd(Y, c.sY.scale, c.sY.offset))

DotRow(c, t, job) ==
    IF job = 0 THEN t
    ELSE IF ~plotDataGetOk(c.d, t.rN) THEN [t EXCEPT !.end = "FINISHED"]
    ELSE DotPoint(c, [t EXCEPT !.rN = RingNext(c.d, t.rN),
                               !.id_N = t.id_N + 1],
                  ColumnOf(c.d, c.xN, t.rN, t.id_N),
                  ColumnOf(c.d, c.yN, t.rN, t.id_N))

DotSkip(c, t, job) ==
    IF job = 0
    THEN [t EXCEPT !.rN = plotDataChunkSkip(c.d, t.rN, t.id_N)[1],
                   !.id_N = plotDataChunkSkip(c.d, t.rN, t.id_N)[2]]
    ELSE t

DotAfterRow(c, t, job) ==
    IF t.end = "FINISHED" THEN t ELSE TrialTop(c, DotSkip(c, t, job))

RECURSIVE DotLoop(_, _)
DotLoop(c, t) ==
    IF t.end # "" THEN t
    ELSE DotLoop(c,
            DotAfterRow(c,
                DotRow(c, [t EXCEPT !.kN_cached = plotDataChunkN(c.d, t.rN)],
                       TrialJob(c, plotDataChunkN(c.d, t.rN), t.kN_cached)),
                TrialJob(c, plotDataChunkN(c.d, t.rN), t.kN_cached)))

DotStore(c, t) ==
    IF t.end = "FINISHED"
    THEN [t.pl EXCEPT !.draw[c.fN].sketch = "FINISHED"]
    ELSE [t.pl EXCEPT !.draw[c.fN].sketch = "INTERRUPTED",
                      !.draw[c.fN].rN = t.rN,
                      !.draw[c.fN].id_N = t.id_N]

(* plotDrawFigureTrial: one step of figure fN, a chunk's worth of rows *)
TrialStart(pl, w) ==
    [pl |-> pl, rN |-> w.rN, id_N |-> w.id_N,
     skipped |-> w.skipped, line |-> w.line,
     last_X |-> w.last_X, last_Y |-> w.last_Y,
     kN_cached |-> -1, end |-> ""]

TrialRun(pl, c, f) ==
    IF f.drawing \in {"LINE", "DASH"}
    THEN LineStore(c, LineLoop(c, TrialStart(pl, pl.draw[c.fN])))
    ELSE IF f.drawing = "DOT"
    THEN DotStore(c, DotLoop(c, TrialStart(pl, pl.draw[c.fN])))
    ELSE pl

(* what the step of figure fN reads once and for all *)
TrialCtx(pl, fN, f, xNR, yNR) ==
    [fN |-> fN, d |-> pl.data[f.data_N],
     xN |-> f.column_X, yN |-> f.column_Y,
     rcX |-> pl.rcache[xNR], rcY |-> pl.rcache[yNR],
     sX |-> TrialScaleX(pl, f), sY |-> TrialScaleY(pl, f),
     top_N |-> pl.draw[fN].id_N + Pow2(pl.data[f.data_N].chunk_SHIFT)]

TrialFetched(pl, fN, f, xNR, yNR) ==
    TrialRun(plotSketchDataChunkSetUp(pl, fN),
             TrialCtx(pl, fN, f, xNR, yNR), f)

TrialFetchY(x, y, fN) ==
    TrialFetched(y.pl, fN, y.pl.figure[fN], x.ret, y.ret)

TrialFetchX(x, fN) ==
    TrialFetchY(x, plotDataRangeCacheFetch(x.pl, x.pl.figure[fN].data_N,
                                           x.pl.figure[fN].column_Y), fN)

plotDrawFigureTrial(pl, fN) ==
    TrialFetchX(plotDataRangeCacheFetch(pl, pl.figure[fN].data_N,
                                        pl.figure[fN].column_X), fN)

(* plotDrawFigureTrialAll.  FIGS: the hidden busy figures, then the others *)
FigsOf(pl, hidden) ==
    SelectSeq([i \in 1..PLOT_FIGURE_MAX |-> i - 1],
              LAMBDA fN : pl.figure[fN].busy # 0
                          /\ (pl.figure[fN].hidden # 0) = hidden)

FIGS(pl) == FigsOf(pl, TRUE) \o FigsOf(pl, FALSE)

RECURSIVE TrialAllStart(_, _, _)
TrialAllStart(pl, figs, N) ==
    IF N > Len(figs) THEN [pl EXCEPT !.draw_in_progress = 1]
    ELSE TrialAllStart(
            [pl EXCEPT !.draw[figs[N]].sketch = "STARTED",
                       !.draw[figs[N]].rN =
                            pl.data[pl.figure[figs[N]].data_N].head_N,
                       !.draw[figs[N]].id_N =
                            pl.data[pl.figure[figs[N]].data_N].id_N,
                       !.draw[figs[N]].skipped = 0,
                       !.draw[figs[N]].line = 0],
            figs, N + 1)

(* A frame that starts over at every call. *)
TrialAllInit_Always(pl, figs) == TrialAllStart(pl, figs, 1)

TrialAllInit(pl, figs) ==
    IF pl.draw_in_progress = 0 THEN TrialAllStart(pl, figs, 1) ELSE pl

(* A pick that takes the first unfinished figure of FIGS, whatever its id_N. *)
TrialAllPick_First(pl, figs, N, fN) ==
    LET S == {i \in 1..Len(figs) : pl.draw[figs[i]].sketch # "FINISHED"}
    IN  IF S = {} THEN -1 ELSE figs[CHOOSE i \in S : \A j \in S : i <= j]

(* the unfinished figure with the least id_N, the first of them in FIGS *)
RECURSIVE TrialAllPick(_, _, _, _)
TrialAllPick(pl, figs, N, fN) ==
    IF N > Len(figs) THEN fN
    ELSE IF pl.draw[figs[N]].sketch = "FINISHED"
    THEN TrialAllPick(pl, figs, N + 1, fN)
    ELSE IF fN < 0 THEN TrialAllPick(pl, figs, N + 1, figs[N])
    ELSE IF pl.draw[figs[N]].id_N < pl.draw[fN].id_N
    THEN TrialAllPick(pl, figs, N + 1, figs[N])
    ELSE TrialAllPick(pl, figs, N + 1, fN)

(* The loop runs until every figure is finished or the clock passes tTOP;  *)
(* `passes` is the number of passes the clock admits, -1 for no deadline.  *)
RECURSIVE TrialAllLoop(_, _, _)
TrialAllPass(pl, figs, passes, fN) ==
    IF fN < 0 THEN [plotSketchGarbage(pl) EXCEPT !.draw_in_progress = 0]
    ELSE IF passes = 1 THEN plotDrawFigureTrial(pl, fN)
    ELSE TrialAllLoop(plotDrawFigureTrial(pl, fN), figs,
                      IF passes < 0 THEN passes ELSE passes - 1)

TrialAllLoop(pl, figs, passes) ==
    TrialAllPass(pl, figs, passes, TrialAllPick(pl, figs, 1, -1))

plotDrawFigureTrialAll(pl, passes) ==
    TrialAllLoop(TrialAllInit(pl, FIGS(pl)), FIGS(pl), passes)

----------------------------------------------------------------------------
(* The dataset specification: loading rows, derived-column passes and      *)
(* range-cache queries.                                                    *)

MaxLen == 4                 \* longest dataset asked for

MaxWrites == 3              \* inserts per dataset where passes and datasets interleave

(* The chunks a write pass from rS to the tail goes through. *)
PassChunks(d, rS) ==
    IF d.length_N = 0 THEN {}
    ELSE {plotDataChunkN(d, (rS + i) % d.length_N) :
            i \in 0..(((d.tail_N - rS + d.length_N) % d.length_N) - 1)}

Wrote(p, dN, ks) ==
    [N \in CacheIds |->
        IF p.rcache[N].busy # 0 /\ p.rcache[N].data_N = dN
        THEN hist.wr[N] \cup ks ELSE hist.wr[N]]

DataAlloc(dN, lN, got) ==
    /\ data[dN].column_N = 0
    /\ Becomes(plotDataAlloc(PL, dN, 1, lN, got))
    /\ hist' = [hist EXCEPT !.ret = -1]

DataInsert(dN, v, max) ==
    /\ hist.ins[dN] < max
    /\ LET d  == data[dN]
           kN == plotDataChunkN(d, d.tail_N)
       IN  /\ Becomes(plotDataInsert(PL, dN, v, hist.ins[dN]))
           /\ hist' = [hist EXCEPT
                         !.ins[dN] = IF d.raw[kN] THEN @ + 1 ELSE @,
                         !.ret = -1,
                         !.wr = Wrote(PL, dN, {kN})]

Fetched(r) ==
    /\ Becomes(r.pl)
    /\ hist' = [hist EXCEPT
                  !.ret = r.ret,
                  !.wr = IF r.scanned
                         THEN [hist.wr EXCEPT ![r.ret] = {}] ELSE hist.wr]

DataRangeCacheFetch(dN, cN) == Fetched(plotDataRangeCacheFetch(PL, dN, cN))

DataGetSubtractScale(dN, cN, scale, offset) ==
    /\ data[dN].column_N # 0
    /\ plotGetSubtractScaleByMatch(PL, dN, cN, scale, offset) = -1
    /\ plotGetFreeSubtract(PL, dN) # -1
    /\ Becomes(plotGetSubtractScale(PL, dN, cN, scale, offset).pl)
    /\ hist' = [hist EXCEPT
                  !.ret = -1,
                  !.wr = Wrote(PL, dN, PassChunks(data[dN], data[dN].head_N))]

DataSubtract(dN) ==
    /\ data[dN].sub_N # data[dN].tail_N
    /\ \E sN \in SubIds : data[dN].sub[sN].busy # "FREE"
    /\ Becomes(plotDataSubtract(PL, dN, -1))
    /\ hist' = [hist EXCEPT
                  !.ret = -1,
                  !.wr = Wrote(PL, dN, PassChunks(data[dN], data[dN].sub_N))]

InitData == IsState(plotAlloc) /\ hist = NoHist

NextData ==
    \/ \E lN \in (MaxLen - 1)..MaxLen : DataAlloc(0, lN, PLOT_CHUNK_MAX)
    \/ \E v \in Values : DataInsert(0, v, MaxInserts)
    \/ \E cN \in {-1, 0} : DataRangeCacheFetch(0, cN)

SpecData == InitData /\ [][NextData]_vars

(* The store where the allocator may fail: plotDataAlloc gets `got` of the *)
(* chunks it asks for, on a fresh dataset and again on the dataset in use   *)
(* (which empties the ring), and rows are inserted in between.             *)
DropAllocs == 3
DropInserts == 5

DropDataAlloc(lN, got) ==
    /\ hist.n < DropAllocs
    /\ Becomes(plotDataAlloc(PL, 0, 1, lN, got))
    /\ hist' = [NoHist EXCEPT !.op = "DataAlloc", !.n = hist.n + 1,
                              !.cuts = hist.cuts]

DropDataInsert(v) ==
    /\ data[0].column_N # 0
    /\ hist.ins[0] + hist.cuts < DropInserts
    /\ LET d  == data[0]
           ok == d.raw[plotDataChunkN(d, d.tail_N)]
       IN  /\ Becomes(plotDataInsert(PL, 0, v, hist.ins[0]))
           /\ hist' = [NoHist EXCEPT
                         !.op = "DataInsert", !.n = hist.n,
                         !.ins[0] = hist.ins[0] + (IF ok THEN 1 ELSE 0),
                         !.cuts = hist.cuts + (IF ok THEN 0 ELSE 1),
                         !.arg = PL]

NextDrop ==
    \/ \E lN \in (MaxLen - 1)..MaxLen, got \in 0..PLOT_CHUNK_MAX :
          DropDataAlloc(lN, got)
    \/ \E v \in {0, 1} : DropDataInsert(v)

SpecDrop == InitData /\ [][NextDrop]_vars

----------------------------------------------------------------------------
(* Allocation, resizing and growth of dataset 0 between inserts.  The      *)
(* dataset as the call found it is kept in hist.arg and the length the     *)
(* call asked plotDataChunkAlloc for in hist.out.                          *)

GrowOps == 3
GrowInserts == 4

Grown(p, op, lN) ==
    /\ hist.n < GrowOps
    /\ Becomes(p)
    /\ hist' = [NoHist EXCEPT !.op = op, !.n = hist.n + 1,
                              !.ins = IF op = "DataAlloc"
                                      THEN NoHist.ins ELSE hist.ins,
                              !.arg = data[0], !.out = <<lN>>]

GrowDataAlloc(lN, got) ==
    /\ lN >= 1
    /\ Grown(plotDataAlloc(PL, 0, 1, lN, got), "DataAlloc", lN)

GrowDataResize(lN, got) ==
    /\ data[0].column_N # 0
    /\ Grown(plotDataResize(PL, 0, lN, got), "DataResize", lN)

GrowDataGrowUp(got) ==
    /\ data[0].column_N # 0
    /\ Grown(plotDataGrowUp(PL, 0, got), "DataGrowUp",
             ((data[0].length_N \div Pow2(data[0].chunk_SHIFT)) + 1)
                 * Pow2(data[0].chunk_SHIFT))

GrowDataInsert(v) ==
    /\ data[0].column_N # 0
    /\ data[0].raw[plotDataChunkN(data[0], data[0].tail_N)]
    /\ hist.ins[0] < GrowInserts
    /\ Becomes(plotDataInsert(PL, 0, v, hist.ins[0]))
    /\ hist' = [NoHist EXCEPT !.op = "DataInsert", !.n = hist.n,
                              !.ins[0] = hist.ins[0] + 1]

NextGrow ==
    \/ \E lN \in (MaxLen - 2)..MaxLen, got \in 0..PLOT_CHUNK_MAX :
          GrowDataAlloc(lN, got)
    \/ \E lN \in (MaxLen - 2)..MaxLen, got \in 0..PLOT_CHUNK_MAX :
          GrowDataResize(lN, got)
    \/ \E got \in 0..PLOT_CHUNK_MAX : GrowDataGrowUp(got)
    \/ \E v \in {1, 2} : GrowDataInsert(v)

SpecGrow == InitData /\ [][NextGrow]_vars

----------------------------------------------------------------------------
(* The chunk cache under compression: the application sets lz4_compress    *)
(* after plotAlloc, allocates dataset 0, appends rows, reads live rows     *)
(* back and cleans the dataset.  malloc of a cache buffer and the          *)
(* compression of an evicted chunk may fail.                               *)

Lz4Ops == 8

Compressed(z, op) ==
    /\ lz4.lz4_compress # 0
    /\ hist.n < Lz4Ops
    /\ Becomes([PL EXCEPT !.lz4 = z])
    /\ hist' = [NoHist EXCEPT !.op = op, !.n = hist.n + 1]

CompressLive(z) ==
    IF z.head_N <= z.tail_N THEN z.head_N..(z.tail_N - 1)
    ELSE (z.head_N..(z.length_N - 1)) \cup (0..(z.tail_N - 1))

Lz4DataAlloc(lN) ==
    /\ lN >= 1
    /\ Compressed(CompressDataAlloc(lz4, 1, lN), "DataAlloc")

Lz4DataInsert(got, lzLEN) ==
    /\ lz4.column_N # 0
    /\ Compressed(CompressDataInsert(lz4, got, lzLEN), "DataInsert")

Lz4DataGet(rN, got, lzLEN) ==
    /\ lz4.column_N # 0
    /\ rN \in CompressLive(lz4)
    /\ Compressed(CompressDataGet(lz4, rN, got, lzLEN), "DataGet")

Lz4DataClean ==
    /\ lz4.column_N # 0
    /\ Compressed(CompressDataClean(lz4), "DataClean")

NextLz4 ==
    \/ \E lN \in (MaxLen - 2)..MaxLen : Lz4DataAlloc(lN)
    \/ \E got \in {0, 1}, lzLEN \in {0, 1} : Lz4DataInsert(got, lzLEN)
    \/ \E rN \in RowIds, got \in {0, 1}, lzLEN \in {0, 1} :
          Lz4DataGet(rN, got, lzLEN)
    \/ Lz4DataClean

InitLz4 ==
    /\ IsState([plotAlloc EXCEPT !.lz4 = [NoLz4 EXCEPT !.lz4_compress = 1]])
    /\ hist = NoHist

SpecLz4 == InitLz4 /\ [][NextLz4]_vars

(* The same store with every dataset in use and derived-column passes     *)
(* (plotDataWrite) between the inserts and the queries.                    *)
NextWipe ==
    \/ \E dN \in DataIds : DataAlloc(dN, MaxLen - 1, PLOT_CHUNK_MAX)
    \/ \E dN \in DataIds : DataInsert(dN, 0, MaxWrites)
    \/ \E dN \in DataIds : DataRangeCacheFetch(dN, 0)
    \/ DataGetSubtractScale(0, 0, 2, 0)
    \/ \E dN \in DataIds : DataSubtract(dN)

SpecWipe == InitData /\ [][NextWipe]_vars

----------------------------------------------------------------------------
(* The figure specification: figures, axes, slave axes and figures on      *)
(* derived columns over allocated datasets that hold no rows yet.  The     *)
(* operations on a figure are offered for the figures that exist.          *)

Fits == {[scale |-> 1, offset |-> 0]}

(* An operation of the interface is made: at most MaxOps of them in a run. *)
Did(p, op) ==
    /\ hist.n < MaxOps
    /\ Becomes(p)
    /\ hist' = [NoHist EXCEPT !.op = op, !.n = hist.n + 1]

FigDataAlloc(dN) ==
    /\ data[dN].column_N = 0
    /\ Did(plotDataAlloc(PL, dN, 1, MaxLen - 1, PLOT_CHUNK_MAX), "DataAlloc")

FigureAdd(fN, dN, nX, nY, aX, aY) ==
    Did(plotFigureAdd(PL, fN, dN, nX, nY, aX, aY), "FigureAdd")

FigureRemove(fN) ==
    /\ figure[fN].busy # 0
    /\ Did(plotFigureRemove(PL, fN), "FigureRemove")

FigureMoveAxes(fN) ==
    /\ figure[fN].busy # 0
    /\ Did(plotFigureMoveAxes(PL, fN), "FigureMoveAxes")

FigureMakeIndividualAxes(fN, fit) ==
    /\ figure[fN].busy # 0
    /\ Did(plotFigureMakeIndividualAxes(PL, fN, fit), "FigureMakeIndividualAxes")

FigureExchange(fN, fN_1) ==
    /\ figure[fN].busy # 0
    /\ Did(plotFigureExchange(PL, fN, fN_1), "FigureExchange")

FigureSubtractFilter(fN_1, opSUB, fit) ==
    /\ figure[fN_1].busy # 0
    /\ Did(plotFigureSubtractFilter(PL, fN_1, opSUB, 0, 0, fit),
           "FigureSubtractFilter")

FigureSubtractScale(fN_1, aBUSY, scale, offset) ==
    /\ figure[fN_1].busy # 0
    /\ Did(plotFigureSubtractScale(PL, fN_1, aBUSY, scale, offset),
           "FigureSubtractScale")

FigureClean == Did(plotFigureClean(PL), "FigureClean")

AxisRemove(aN) == Did(plotAxisRemove(PL, aN), "AxisRemove")

AxisScaleManual(aN, min, max) ==
    Did(plotAxisScaleManual(PL, aN, min, max), "AxisScaleManual")

AxisSlaveEnable(aN, bN, scale, offset) ==
    Did(plotAxisSlave(PL, aN, bN, scale, offset, AXIS_SLAVE_ENABLE),
        "AxisSlave")

(* the quotients of HOLD_AS_IS are taken where they are exact *)
AxisSlaveHold(aN, bN) ==
    /\ axis[bN].scale # 0
    /\ axis[aN].scale % axis[bN].scale = 0
    /\ (axis[aN].offset - axis[bN].offset) % axis[bN].scale = 0
    /\ Did(plotAxisSlave(PL, aN, bN, 0, 0, AXIS_SLAVE_HOLD_AS_IS), "AxisSlave")

AxisSlaveDisable(aN) ==
    Did(plotAxisSlave(PL, aN, -1, 0, 0, AXIS_SLAVE_DISABLE), "AxisSlave")

NextFig ==
    \/ \E dN \in DataIds : FigDataAlloc(dN)
    \/ \E fN \in FigureIds, dN \in DataIds, aX \in AxisIds, aY \in AxisIds :
            FigureAdd(fN, dN, -1, 0, aX, aY)
    \/ \E fN \in FigureIds : FigureRemove(fN)
    \/ \E fN \in FigureIds : FigureMoveAxes(fN)
    \/ \E fN \in FigureIds, fit \in Fits : FigureMakeIndividualAxes(fN, fit)
    \/ \E fN \in FigureIds, fN_1 \in FigureIds : FigureExchange(fN, fN_1)
    \/ \E fN \in FigureIds, fit \in Fits,
          opSUB \in {"FILTER_DIFFERENCE", "FILTER_LOW_PASS"} :
            FigureSubtractFilter(fN, opSUB, fit)
    \/ \E fN \in FigureIds, aBUSY \in {AXIS_BUSY_X, AXIS_BUSY_Y} :
            FigureSubtractScale(fN, aBUSY, 1, 0)
    \/ FigureClean
    \/ \E aN \in AxisIds : AxisRemove(aN)
    \/ \E aN \in AxisIds : AxisScaleManual(aN, 0, 1)
    \/ \E aN \in AxisIds, bN \in AxisIds : AxisSlaveEnable(aN, bN, 1, 0)
    \/ \E aN \in AxisIds, bN \in AxisIds : AxisSlaveHold(aN, bN)
    \/ \E aN \in AxisIds : AxisSlaveDisable(aN)

(* The engine as the application has it before the first figure: built by  *)
(* plotAlloc and reset by plotFigureClean, which takes the focus off.      *)
InitFig == IsState(plotFigureClean(plotAlloc)) /\ hist = NoHist

SpecFig == InitFig /\ [][NextFig]_vars

----------------------------------------------------------------------------
(* The range specification: calls of the interface with an index outside   *)
(* its range, over an engine with datasets and figures.                    *)

Outside(n) == {-1, n}

Out(p) == Did(p, "OutOfRange")

OutDataAlloc(dN) == Out(plotDataAlloc(PL, dN, 1, MaxLen - 1, PLOT_CHUNK_MAX))

OutDataInsert(dN, kN) == Out(plotDataInsertOutside(PL, dN, kN))

OutDataSubtract(dN, sN) == Out(plotDataSubtract(PL, dN, sN))

OutGetSubtractScale(dN) == Out(plotGetSubtractScale(PL, dN, 0, 1, 0).pl)

OutAxisScaleManual(aN) == Out(plotAxisScaleManual(PL, aN, 0, 1))

OutAxisScaleAutoCond(aN, bN, fit) == Out(plotAxisScaleAutoCond(PL, aN, bN, fit))

OutAxisScaleAuto(aN, fit, ub) == Out(plotAxisScaleAuto(PL, aN, fit, ub))

OutAxisSlave(aN, bN, action) == Out(plotAxisSlave(PL, aN, bN, 1, 0, action))

OutAxisRemove(aN) == Out(plotAxisRemove(PL, aN))

OutFigureAdd(fN, dN, nX, nY, aX, aY) ==
    Out(plotFigureAdd(PL, fN, dN, nX, nY, aX, aY))

OutFigureRemove(fN) == Out(plotFigureRemove(PL, fN))

OutFigureMoveAxes(fN) == Out(plotFigureMoveAxes(PL, fN))

OutFigureMakeIndividualAxes(fN, fit) ==
    Out(plotFigureMakeIndividualAxes(PL, fN, fit))

OutFigureExchange(fN, fN_1) == Out(plotFigureExchange(PL, fN, fN_1))

OutFigureSubtractFilter(fN_1, fit) ==
    Out(plotFigureSubtractFilter(PL, fN_1, "FILTER_DIFFERENCE", 0, 0, fit))

OutFigureSubtractScale(fN_1) ==
    Out(plotFigureSubtractScale(PL, fN_1, AXIS_BUSY_Y, 1, 0))

(* the calls of plotFigureAdd with one of its five indices outside *)
OutFigureAdds ==
         {<<fN, 0, -1, 0, 0, 1>> : fN \in Outside(PLOT_FIGURE_MAX)}
    \cup {<<0, dN, -1, 0, 0, 1>> : dN \in Outside(PLOT_DATASET_MAX)}
    \cup {<<0, 0, nX, 0, 0, 1>> : nX \in {-2, 1 + PLOT_SUBTRACT}}
    \cup {<<0, 0, -1, nY, 0, 1>> : nY \in {-2, 1 + PLOT_SUBTRACT}}
    \cup {<<0, 0, -1, 0, aX, 1>> : aX \in Outside(PLOT_AXES_MAX)}
    \cup {<<0, 0, -1, 0, 0, aY>> : aY \in Outside(PLOT_AXES_MAX)}

NextRange ==
    \/ \E dN \in DataIds : FigDataAlloc(dN)
    \/ \E fN \in FigureIds, aX \in AxisIds, aY \in AxisIds :
            FigureAdd(fN, 0, -1, 0, aX, aY)
    \/ \E dN \in Outside(PLOT_DATASET_MAX) : OutDataAlloc(dN)
    \/ \E dN \in Outside(PLOT_DATASET_MAX), kN \in ChunkIds :
            OutDataInsert(dN, kN)
    \/ \E dN \in Outside(PLOT_DATASET_MAX) : OutDataSubtract(dN, 0)
    \/ \E sN \in {-2, PLOT_SUBTRACT} : OutDataSubtract(0, sN)
    \/ \E dN \in Outside(PLOT_DATASET_MAX) : OutGetSubtractScale(dN)
    \/ \E aN \in Outside(PLOT_AXES_MAX) : OutAxisScaleManual(aN)
    \/ \E aN \in Outside(PLOT_AXES_MAX), fit \in Fits :
            OutAxisScaleAutoCond(aN, -1, fit)
    \/ \E bN \in {-2, PLOT_AXES_MAX}, fit \in Fits :
            OutAxisScaleAutoCond(0, bN, fit)
    \/ \E aN \in Outside(PLOT_AXES_MAX), fit \in Fits,
          ub \in {"elsewhere", "on_X", "on_Y"} : OutAxisScaleAuto(aN, fit, ub)
    \/ \E aN \in Outside(PLOT_AXES_MAX),
          action \in {AXIS_SLAVE_ENABLE, AXIS_SLAVE_HOLD_AS_IS,
                      AXIS_SLAVE_DISABLE} : OutAxisSlave(aN, 0, action)
    \/ \E bN \in Outside(PLOT_AXES_MAX),
          action \in {AXIS_SLAVE_ENABLE, AXIS_SLAVE_HOLD_AS_IS} :
            OutAxisSlave(0, bN, action)
    \/ \E aN \in Outside(PLOT_AXES_MAX) : OutAxisRemove(aN)
    \/ \E a \in OutFigureAdds :
            OutFigureAdd(a[1], a[2], a[3], a[4], a[5], a[6])
    \/ \E fN \in Outside(PLOT_FIGURE_MAX) : OutFigureRemove(fN)
    \/ \E fN \in Outside(PLOT_FIGURE_MAX) : OutFigureMoveAxes(fN)
    \/ \E fN \in Outside(PLOT_FIGURE_MAX), fit \in Fits :
            OutFigureMakeIndividualAxes(fN, fit)
    \/ \E fN \in Outside(PLOT_FIGURE_MAX) : OutFigureExchange(fN, 0)
    \/ \E fN \in Outside(PLOT_FIGURE_MAX) : OutFigureExchange(0, fN)
    \/ \E fN \in Outside(PLOT_FIGURE_MAX), fit \in Fits :
            OutFigureSubtractFilter(fN, fit)
    \/ \E fN \in Outside(PLOT_FIGURE_MAX) : OutFigureSubtractScale(fN)

SpecRange == InitFig /\ [][NextRange]_vars

----------------------------------------------------------------------------
(* The semantic specification: figures are added and axes are enslaved,    *)
(* and calls are made that break a rule of the axes: plotFigureAdd with    *)
(* the same axis twice or with an axis of the other kind, plotAxisSlave    *)
(* of an axis to itself, to a base that is a slave, or of an axis that is  *)
(* the base of another axis.                                               *)

Sem(p) == Did(p, "Semantic")

SemFigureAdd(fN, aX, aY) ==
    /\ data[0].column_N # 0
    /\ \/ aX = aY
       \/ axis[aX].busy = AXIS_BUSY_Y
       \/ axis[aY].busy = AXIS_BUSY_X
    /\ Sem(plotFigureAdd(PL, fN, 0, -1, 0, aX, aY))

SemAxisSlaveEnable(aN, bN) ==
    /\ \/ aN = bN
       \/ axis[bN].slave # 0
       \/ \E N \in AxisIds \ {aN} : axis[N].slave # 0 /\ axis[N].slave_N = aN
    /\ Sem(plotAxisSlave(PL, aN, bN, 2, 1, AXIS_SLAVE_ENABLE))

SemAxisSlaveHold(aN, bN) ==
    /\ \/ aN = bN
       \/ axis[bN].slave # 0
       \/ \E N \in AxisIds \ {aN} : axis[N].slave # 0 /\ axis[N].slave_N = aN
    /\ axis[bN].scale # 0
    /\ axis[aN].scale % axis[bN].scale = 0
    /\ (axis[aN].offset - axis[bN].offset) % axis[bN].scale = 0
    /\ Sem(plotAxisSlave(PL, aN, bN, 0, 0, AXIS_SLAVE_HOLD_AS_IS))

NextSem ==
    \/ FigDataAlloc(0)
    \/ \E fN \in FigureIds, aX \in AxisIds, aY \in AxisIds :
            FigureAdd(fN, 0, -1, 0, aX, aY)
    \/ \E aN \in AxisIds : AxisScaleManual(aN, 0, 1)
    \/ \E aN \in AxisIds, bN \in AxisIds : AxisSlaveEnable(aN, bN, 1, 0)
    \/ \E fN \in FigureIds, aX \in AxisIds, aY \in AxisIds :
            SemFigureAdd(fN, aX, aY)
    \/ \E aN \in AxisIds, bN \in AxisIds : SemAxisSlaveEnable(aN, bN)
    \/ \E aN \in AxisIds, bN \in AxisIds : SemAxisSlaveHold(aN, bN)

SpecSem == InitFig /\ [][NextSem]_vars

----------------------------------------------------------------------------
(* The derived-column specifications: dataset 0 is loaded row by row and   *)
(* a slot that keeps a state over it is recomputed after the inserts       *)
(* (plotDataSubtract(dN, -1)) or as a whole (plotDataSubtract(dN, sN)).    *)
(* hist.kept tells that the columns were kept by plotDataSubtract(dN, -1)  *)
(* alone: no slot was recomputed as a whole, and every other call was made *)
(* with the derived columns up to date (sub_N = tail_N).  hist.out are the *)
(* values plotDataSubtract(dN, -1) gave the rows, in the order of the      *)
(* inserts, while hist.kept holds.                                         *)

SubInserts == 5

Sub(p, op, out) ==
    /\ Becomes(p)
    /\ hist' = [hist EXCEPT
                  !.op = op,
                  !.out = out,
                  !.kept = /\ @
                           /\ op # "SubtractOne"
                           /\ op = "Subtract" \/ data[0].sub_N = data[0].tail_N]

SubDataAlloc ==
    /\ data[0].column_N = 0
    /\ Sub(plotDataAlloc(PL, 0, 1, MaxLen, PLOT_CHUNK_MAX), "Alloc", hist.out)

SubDataInsert(v, max) ==
    /\ data[0].column_N # 0
    /\ hist.ins[0] < max
    /\ Becomes(plotDataInsert(PL, 0, v, hist.ins[0]))
    /\ hist' = [hist EXCEPT
                  !.ins[0] = @ + 1,
                  !.op = "Insert",
                  !.kept = @ /\ data[0].sub_N = data[0].tail_N]

SubFigureAdd ==
    /\ data[0].column_N # 0
    /\ figure[0].busy = 0
    /\ Sub(plotFigureAdd(PL, 0, 0, -1, 0, 0, 1), "FigureAdd", hist.out)

SubFigureSubtractFilter ==
    /\ figure[0].busy # 0
    /\ data[0].sub[0].busy = "FREE"
    /\ \E fit \in Fits :
          Sub(plotFigureSubtractFilter(PL, 0, "FILTER_CUMULATIVE", 0, 0, fit),
              "Filter", hist.out)

SubGetSubtractTimeUnwrap ==
    /\ data[0].column_N # 0
    /\ data[0].sub[0].busy = "FREE"
    /\ Sub(plotGetSubtractTimeUnwrap(PL, 0, 0).pl, "TimeUnwrap", hist.out)

(* plotDataSubtract(0, -1) when rows wait for it *)
SubSubtractAll(record) ==
    /\ data[0].sub_N # data[0].tail_N
    /\ LET p == plotDataSubtract(PL, 0, -1)
       IN  Sub(p, "Subtract",
               IF record /\ hist.kept /\ data[0].sub[0].busy # "FREE"
               THEN Append(hist.out, p.data[0].derived[0][data[0].sub_N])
               ELSE hist.out)

(* plotDataSubtract(0, 0): the slot as a whole *)
SubSubtractOne ==
    /\ data[0].sub[0].busy # "FREE"
    /\ Sub(plotDataSubtract(PL, 0, 0), "SubtractOne", hist.out)

NextCum ==
    \/ SubDataAlloc
    \/ \E v \in Values : SubDataInsert(v, SubInserts)
    \/ SubFigureAdd
    \/ SubFigureSubtractFilter
    \/ SubSubtractAll(FALSE)
    \/ SubSubtractOne

SpecCum == InitFig /\ [][NextCum]_vars

(* Rows come in while the derived columns are brought up to date from the  *)
(* watermark sub_N; each operation keeps the dataset as it found it.       *)
MarkInserts == 6

Marked(p, op, ins) ==
    /\ Becomes(p)
    /\ hist' = [NoHist EXCEPT !.op = op, !.ins[0] = ins, !.arg = data[0]]

MarkDataAlloc(lN) ==
    /\ data[0].column_N = 0
    /\ Marked(plotDataAlloc(PL, 0, 1, lN, PLOT_CHUNK_MAX), "DataAlloc", 0)

MarkDataInsert(v) ==
    /\ data[0].column_N # 0
    /\ hist.ins[0] < MarkInserts
    /\ Marked(plotDataInsert(PL, 0, v, hist.ins[0]), "DataInsert",
              hist.ins[0] + 1)

MarkGetSubtractScale ==
    /\ data[0].column_N # 0
    /\ data[0].sub[0].busy = "FREE"
    /\ Marked(plotGetSubtractScale(PL, 0, 0, 2, 0).pl, "GetSubtractScale",
              hist.ins[0])

MarkDataSubtract ==
    /\ data[0].column_N # 0
    /\ hist.op # "DataSubtract"
    /\ Marked(plotDataSubtract(PL, 0, -1), "DataSubtract", hist.ins[0])

NextMark ==
    \/ \E lN \in (MaxLen - 1)..MaxLen : MarkDataAlloc(lN)
    \/ \E v \in {0, 1} : MarkDataInsert(v)
    \/ MarkGetSubtractScale
    \/ MarkDataSubtract

SpecMark == InitData /\ [][NextMark]_vars

(* A time column that wraps once: the rows 0.0, 0.5, 1.0, 0.2, 0.7, 1.2    *)
(* in tenths, inserted in this order while a TIME_UNWRAP slot is asked for *)
(* and recomputed at any moment.                                           *)
ScenarioB == <<0, 5, 10, 2, 7, 12>>

SubScenarioInsert ==
    /\ hist.ins[0] < Len(ScenarioB)
    /\ SubDataInsert(ScenarioB[hist.ins[0] + 1], Len(ScenarioB))

NextUnwrapB ==
    \/ SubDataAlloc
    \/ SubScenarioInsert
    \/ SubGetSubtractTimeUnwrap
    \/ SubSubtractAll(TRUE)
    \/ SubSubtractOne

SpecUnwrapB == InitFig /\ [][NextUnwrapB]_vars

(* Any finite time column under a TIME_UNWRAP slot. *)
TimeValues == {0, 1, 2}

NextTime ==
    \/ SubDataAlloc
    \/ \E v \in TimeValues : SubDataInsert(v, SubInserts)
    \/ SubGetSubtractTimeUnwrap
    \/ SubSubtractAll(FALSE)
    \/ SubSubtractOne

SpecTime == InitFig /\ [][NextTime]_vars

(* The slice specification: a column of any values, and the row nearest to *)
(* a sample is asked for; hist.arg is the sample, hist.ret the id of the   *)
(* row returned (-1: none).                                                *)
SliceValues == {0, 3, 4, NaN}
SliceSamples == {2, 3}

SubDataSliceGet(fsamp) ==
    /\ data[0].column_N # 0
    /\ LET r == plotDataSliceGet(PL, 0, 0, fsamp)
       IN  /\ Becomes(r.pl)
           /\ hist' = [hist EXCEPT !.op = "Slice", !.ret = r.ret,
                                   !.arg = fsamp]

NextSlice ==
    \/ SubDataAlloc
    \/ \E v \in SliceValues : SubDataInsert(v, SubInserts)
    \/ \E fsamp \in SliceSamples : SubDataSliceGet(fsamp)

SpecSlice == InitFig /\ [][NextSlice]_vars

(* The conditional-range specification: the range of one column over the   *)
(* rows that another column puts inside [0, 1].  hist.arg is the call      *)
(* <<cN, cN_cond, scale, offset>>, hist.out the <<started, fmin, fmax>>    *)
(* it gave, starting from started = 0.                                     *)
SubDataRangeCond(cN, cN_cond, scale, offset) ==
    /\ data[0].column_N # 0
    /\ LET r == plotDataRangeCond(PL, 0, cN, cN_cond,
                                  [started |-> 0, fmin |-> 0, fmax |-> 0],
                                  scale, offset)
       IN  /\ Becomes(r.pl)
           /\ hist' = [hist EXCEPT
                         !.op = "Cond",
                         !.arg = <<cN, cN_cond, scale, offset>>,
                         !.out = <<r.acc.started, r.acc.fmin, r.acc.fmax>>]

CondInserts == 4

NextCond ==
    \/ SubDataAlloc
    \/ \E v \in Values : SubDataInsert(v, CondInserts)
    \/ \E cN \in {-1, 0}, offset \in {-1, 0} :
          SubDataRangeCond(cN, -1 - cN, 1, offset)

SpecCond == InitFig /\ [][NextCond]_vars

----------------------------------------------------------------------------
(* The sweep specification: figures are put on the columns of two          *)
(* datasets, moved onto scaled, unwrapped and filtered columns, and        *)
(* removed again, in at most SweepOps operations.  hist.arg holds the      *)
(* figure (the dataset) of the operation.                                  *)

SweepOps == 6

Swept(p, op, N) ==
    /\ hist.n < SweepOps
    /\ Becomes(p)
    /\ hist' = [NoHist EXCEPT !.op = op, !.arg = N, !.n = hist.n + 1]

SweepDataAlloc(dN) ==
    /\ data[dN].column_N = 0
    /\ Swept(plotDataAlloc(PL, dN, 1, MaxLen - 1, PLOT_CHUNK_MAX),
             "DataAlloc", dN)

SweepFigureAdd(fN, dN) ==
    /\ figure[fN].busy = 0
    /\ data[dN].column_N # 0
    /\ Swept(plotFigureAdd(PL, fN, dN, -1, 0, 0, 1), "FigureAdd", fN)

SweepFigureSubtractScale(fN, aBUSY) ==
    /\ figure[fN].busy # 0
    /\ Swept(plotFigureSubtractScale(PL, fN, aBUSY, 1, 0),
             "FigureSubtractScale", fN)

SweepFigureSubtractTimeUnwrap(fN) ==
    /\ figure[fN].busy # 0
    /\ Swept(plotFigureSubtractTimeUnwrap(PL, fN),
             "FigureSubtractTimeUnwrap", fN)

SweepFigureSubtractFilter(fN, fit) ==
    /\ figure[fN].busy # 0
    /\ Swept(plotFigureSubtractFilter(PL, fN, "FILTER_DIFFERENCE", 0, 0, fit),
             "FigureSubtractFilter", fN)

SweepFigureRemove(fN) ==
    /\ figure[fN].busy # 0
    /\ Swept(plotFigureRemove(PL, fN), "FigureRemove", fN)

NextSweep ==
    \/ \E dN \in DataIds : SweepDataAlloc(dN)
    \/ \E fN \in FigureIds, dN \in DataIds : SweepFigureAdd(fN, dN)
    \/ \E fN \in FigureIds, aBUSY \in {AXIS_BUSY_X, AXIS_BUSY_Y} :
            SweepFigureSubtractScale(fN, aBUSY)
    \/ \E fN \in FigureIds : SweepFigureSubtractTimeUnwrap(fN)
    \/ \E fN \in FigureIds, fit \in Fits : SweepFigureSubtractFilter(fN, fit)
    \/ \E fN \in FigureIds : SweepFigureRemove(fN)

SpecSweep == InitFig /\ [][NextSweep]_vars

(* Two figures and the switch between them and their binary result.  The   *)
(* consecutive switches are followed in hist.ref: the visible figures, the  *)
(* busy figures and the busy slots before the first switch and after each. *)
SwitchOps == 7

Visible(p) == {N \in FigureIds : p.figure[N].busy # 0 /\ p.figure[N].hidden = 0}

SwitchView(p) ==
    [vis  |-> Visible(p),
     src  |-> {<<p.figure[N].data_N, p.figure[N].column_Y>> : N \in Visible(p)},
     busy |-> {N \in FigureIds : p.figure[N].busy # 0},
     sub  |-> {<<dN, sN>> \in DataIds \X SubIds :
                  p.data[dN].sub[sN].busy # "FREE"}]

Switched(p, op, ref) ==
    /\ hist.n < SwitchOps
    /\ Becomes(p)
    /\ hist' = [NoHist EXCEPT !.op = op, !.n = hist.n + 1, !.ref = ref]

SwitchDataAlloc(dN) ==
    /\ data[dN].column_N = 0
    /\ Switched(plotDataAlloc(PL, dN, 1, MaxLen - 1, PLOT_CHUNK_MAX),
                "DataAlloc", <<>>)

SwitchFigureAdd(fN, dN) ==
    /\ figure[fN].busy = 0
    /\ data[dN].column_N # 0
    /\ Switched(plotFigureAdd(PL, fN, dN, -1, 0, 0, 1), "FigureAdd", <<>>)

SwitchFigureSubtractScale(fN) ==
    /\ figure[fN].busy # 0
    /\ Switched(plotFigureSubtractScale(PL, fN, AXIS_BUSY_Y, 2, 0),
                "FigureSubtractScale", <<>>)

SwitchedOver(p, op) ==
    Switched(p, op, IF hist.ref = <<>> THEN <<SwitchView(PL), SwitchView(p)>>
                    ELSE Append(hist.ref, SwitchView(p)))

SwitchFigureSubtractSwitch(opSUB, fit) ==
    /\ Visible(PL) # {}
    /\ SwitchedOver(plotFigureSubtractSwitch(PL, opSUB, fit),
                    "FigureSubtractSwitch")

NextSwitch ==
    \/ \E dN \in DataIds : SwitchDataAlloc(dN)
    \/ \E fN \in {0, 1}, dN \in DataIds : SwitchFigureAdd(fN, dN)
    \/ SwitchFigureSubtractScale(1)
    \/ \E fit \in Fits : SwitchFigureSubtractSwitch("BINARY_SUBTRACTION", fit)

SpecSwitch == InitFig /\ [][NextSwitch]_vars

(* Slots are made for the figures, freed with them and freed all at once,  *)
(* and free slots are taken again.                                         *)
SelfOps == 5

Reused(p, op) ==
    /\ hist.n < SelfOps
    /\ Becomes(p)
    /\ hist' = [NoHist EXCEPT !.op = op, !.n = hist.n + 1]

SelfDataAlloc ==
    /\ data[0].column_N = 0
    /\ Reused(plotDataAlloc(PL, 0, 1, MaxLen - 1, PLOT_CHUNK_MAX), "DataAlloc")

SelfFigureAdd(fN) ==
    /\ figure[fN].busy = 0
    /\ data[0].column_N # 0
    /\ Reused(plotFigureAdd(PL, fN, 0, -1, 0, 0, 1), "FigureAdd")

SelfFigureSubtractScale(fN, aBUSY) ==
    /\ figure[fN].busy # 0
    /\ Reused(plotFigureSubtractScale(PL, fN, aBUSY, 2, 0), "FigureSubtractScale")

SelfFigureSubtractFilter(fN, fit) ==
    /\ figure[fN].busy # 0
    /\ Reused(plotFigureSubtractFilter(PL, fN, "FILTER_DIFFERENCE", 0, 0, fit), "FigureSubtractFilter")

SelfFigureSubtractSwitch(fit) ==
    /\ \E fN \in FigureIds : figure[fN].busy # 0
    /\ Reused(plotFigureSubtractSwitch(PL, "BINARY_SUBTRACTION", fit), "FigureSubtractSwitch")

SelfFigureRemove(fN) ==
    /\ figure[fN].busy # 0
    /\ Reused(plotFigureRemove(PL, fN), "FigureRemove")

SelfDataSubtractClean ==
    /\ \E sN \in SubIds : data[0].sub[sN].busy # "FREE"
    /\ Reused(plotDataSubtractClean(PL), "DataSubtractClean")

NextSelf ==
    \/ SelfDataAlloc
    \/ \E fN \in {0, 1} : SelfFigureAdd(fN)
    \/ \E fN \in {0, 1}, aBUSY \in {AXIS_BUSY_X, AXIS_BUSY_Y} :
            SelfFigureSubtractScale(fN, aBUSY)
    \/ \E fN \in {0, 1}, fit \in Fits : SelfFigureSubtractFilter(fN, fit)
    \/ \E fit \in Fits : SelfFigureSubtractSwitch(fit)
    \/ \E fN \in FigureIds : SelfFigureRemove(fN)
    \/ SelfDataSubtractClean

SpecSelf == InitFig /\ [][NextSelf]_vars

(* The store and its range cache while the dataset is cleaned, resized and *)
(* grown, and while a derived slot comes and goes with its figure.  An      *)
(* entry of the cache is held in hist.wr as long as it is busy and cached   *)
(* with bounds computed before the last such operation.                    *)
InvalOps == 6

EntryOf(p, N, cs) ==
    /\ p.rcache[N].busy # 0
    /\ p.rcache[N].cached # 0
    /\ p.rcache[N].data_N = 0
    /\ p.rcache[N].column_N \in cs

Invalidated(p, op, cs, ret, scanned) ==
    /\ hist.n < InvalOps
    /\ Becomes(p)
    /\ hist' = [NoHist EXCEPT
                  !.op = op, !.n = hist.n + 1, !.ret = ret,
                  !.wr = [N \in CacheIds |->
                            IF EntryOf(p, N, cs) THEN ChunkIds
                            ELSE IF scanned /\ N = ret THEN {}
                            ELSE IF EntryOf(p, N, -1..PLOT_SUBTRACT)
                            THEN hist.wr[N] ELSE {}]]

InvalDataAlloc ==
    /\ data[0].column_N = 0
    /\ Invalidated(plotDataAlloc(PL, 0, 1, MaxLen - 1, PLOT_CHUNK_MAX),
                   "DataAlloc", {}, -1, FALSE)

InvalDataInsert(v) ==
    /\ data[0].column_N # 0
    /\ Invalidated(plotDataInsert(PL, 0, v, 0), "DataInsert", {}, -1, FALSE)

InvalDataRangeCacheFetch(cN) ==
    /\ data[0].column_N # 0
    /\ cN >= data[0].column_N => data[0].sub[cN - data[0].column_N].busy # "FREE"
    /\ LET r == plotDataRangeCacheFetch(PL, 0, cN)
       IN  Invalidated(r.pl, "DataRangeCacheFetch", {}, r.ret, r.scanned)

InvalDataClean ==
    /\ data[0].column_N # 0
    /\ Invalidated(plotDataClean(PL, 0), "DataClean", -1..PLOT_SUBTRACT,
                   -1, FALSE)

InvalDataResize(lN) ==
    /\ data[0].column_N # 0
    /\ Invalidated(plotDataResize(PL, 0, lN, PLOT_CHUNK_MAX), "DataResize",
                   -1..PLOT_SUBTRACT, -1, FALSE)

InvalDataGrowUp ==
    /\ data[0].column_N # 0
    /\ data[0].length_N < MaxLen
    /\ Invalidated(plotDataGrowUp(PL, 0, PLOT_CHUNK_MAX), "DataGrowUp",
                   -1..PLOT_SUBTRACT, -1, FALSE)

InvalFigureAdd ==
    /\ figure[0].busy = 0
    /\ data[0].column_N # 0
    /\ Invalidated(plotFigureAdd(PL, 0, 0, -1, 0, 0, 1), "FigureAdd", {},
                   -1, FALSE)

InvalFigureSubtractScale ==
    /\ figure[0].busy # 0
    /\ data[0].column_N # 0
    /\ Invalidated(plotFigureSubtractScale(PL, 0, AXIS_BUSY_Y, 1, 0),
                   "FigureSubtractScale", {}, -1, FALSE)

(* the columns of the slots that plotSubtractGarbage frees in the removal *)
InvalFigureRemove ==
    /\ figure[0].busy # 0
    /\ LET p == plotFigureRemove(PL, 0)
       IN  Invalidated(p, "FigureRemove",
               {data[0].column_N + sN : sN \in
                   {s \in SubIds : /\ data[0].sub[s].busy # "FREE"
                                   /\ p.data[0].sub[s].busy = "FREE"}},
               -1, FALSE)

NextInval ==
    \/ InvalDataAlloc
    \/ InvalDataInsert(1)
    \/ \E cN \in 0..1 : InvalDataRangeCacheFetch(cN)
    \/ InvalDataClean
    \/ \E lN \in {MaxLen - 2, MaxLen} : InvalDataResize(lN)
    \/ InvalDataGrowUp
    \/ InvalFigureAdd
    \/ InvalFigureSubtractScale
    \/ InvalFigureRemove

SpecInval == InitFig /\ [][NextInval]_vars

----------------------------------------------------------------------------
(* The slot request specification: scale and time unwrap slots are         *)
(* requested on a dataset that is being filled, and freed again by the     *)
(* removal of a figure.  hist.arg holds the request, hist.ret the column   *)
(* returned and hist.out the slots as they were before the request.        *)

Requested(r, op, arg) ==
    /\ Becomes(r.pl)
    /\ hist' = [NoHist EXCEPT !.op = op, !.arg = arg, !.ret = r.ret,
                              !.out = data[0].sub, !.ins[0] = hist.ins[0]]

DedupGetSubtractScale(cN, scale, offset) ==
    /\ data[0].column_N # 0
    /\ Requested(plotGetSubtractScale(PL, 0, cN, scale, offset),
                 "GetSubtractScale", <<cN, scale, offset>>)

DedupGetSubtractTimeUnwrap(cN) ==
    /\ data[0].column_N # 0
    /\ Requested(plotGetSubtractTimeUnwrap(PL, 0, cN),
                 "GetSubtractTimeUnwrap", <<cN>>)

(* the other operations; they leave no request behind in hist *)
Unrequested(p, op, ins) ==
    /\ Becomes(p)
    /\ hist' = [NoHist EXCEPT !.op = op, !.ins[0] = ins]

DedupDataAlloc ==
    /\ data[0].column_N = 0
    /\ Unrequested(plotDataAlloc(PL, 0, 1, MaxLen, PLOT_CHUNK_MAX), "Alloc",
               hist.ins[0])

DedupInserts == 1

DedupDataInsert(v) ==
    /\ data[0].column_N # 0
    /\ hist.ins[0] < DedupInserts
    /\ Unrequested(plotDataInsert(PL, 0, v, hist.ins[0]), "Insert",
               hist.ins[0] + 1)

DedupFigureAdd ==
    /\ data[0].column_N # 0
    /\ figure[0].busy = 0
    /\ Unrequested(plotFigureAdd(PL, 0, 0, -1, 0, 0, 1), "FigureAdd", hist.ins[0])

DedupFigureRemove ==
    /\ figure[0].busy # 0
    /\ Unrequested(plotFigureRemove(PL, 0), "FigureRemove", hist.ins[0])

NextDedup ==
    \/ DedupDataAlloc
    \/ DedupDataInsert(1)
    \/ DedupFigureAdd
    \/ DedupFigureRemove
    \/ \E cN \in {-1, 0}, scale \in {1, 2} :
          DedupGetSubtractScale(cN, scale, 0)
    \/ \E cN \in {-1, 0} : DedupGetSubtractTimeUnwrap(cN)

SpecDedup == InitFig /\ [][NextDedup]_vars

----------------------------------------------------------------------------
(* The slave axis specification: figures are put on the axes, the axes are *)
(* scaled by hand and made slaves of each other and independent again, in  *)
(* at most SlaveOps operations on the axes.  hist.ref holds, for every     *)
(* axis that a call made a slave, the call and the transforms it found;    *)
(* hist.arg holds what the last call was given and found.                  *)

SlaveOps == 4

Pending(aN) ==
    {hist.ref[i] : i \in {i \in 1..Len(hist.ref) : hist.ref[i].a = aN}}

Slaved(p, op, arg, ref) ==
    /\ hist.n < SlaveOps
    /\ Becomes(p)
    /\ hist' = [NoHist EXCEPT !.op = op, !.n = hist.n + 1,
                              !.arg = arg, !.ref = ref]

(* the call made aN a slave: it is remembered *)
SlavedBy(p, op, arg, aN, r) ==
    Slaved(p, op, arg,
           IF axis[aN].slave = 0 /\ p.axis[aN].slave # 0
           THEN Append(hist.ref, r) ELSE hist.ref)

SlaveDataAlloc ==
    /\ data[0].column_N = 0
    /\ Becomes(plotDataAlloc(PL, 0, 1, MaxLen - 1, PLOT_CHUNK_MAX))
    /\ hist' = [hist EXCEPT !.op = "DataAlloc", !.arg = 0]

SlaveFigureAdd(fN, aX, aY) ==
    /\ data[0].column_N # 0
    /\ fN = plotGetFreeFigure(PL)
    /\ Becomes(plotFigureAdd(PL, fN, 0, -1, 0, aX, aY))
    /\ hist' = [hist EXCEPT !.op = "FigureAdd", !.arg = 0]

SlaveAxisScaleManual(aN, min, max) ==
    Slaved(plotAxisScaleManual(PL, aN, min, max), "ScaleManual", 0, hist.ref)

SlaveAxisEnable(aN, bN, scale, offset) ==
    SlavedBy(plotAxisSlave(PL, aN, bN, scale, offset, AXIS_SLAVE_ENABLE),
             "Enable", <<aN>>, aN,
             [a |-> aN, kind |-> AXIS_SLAVE_ENABLE, b |-> bN,
              s |-> scale, o |-> offset, sB |-> 0, oB |-> 0])

(* the quotients of HOLD_AS_IS are taken where they are exact or not finite *)
SlaveAxisHold(aN, bN) ==
    /\ IF axis[bN].scale <= 0 THEN TRUE
       ELSE /\ axis[aN].scale % axis[bN].scale = 0
            /\ (axis[aN].offset - axis[bN].offset) % axis[bN].scale = 0
    /\ SlavedBy(plotAxisSlave(PL, aN, bN, 0, 0, AXIS_SLAVE_HOLD_AS_IS),
                "Hold",
                <<aN, plotAxisConv(PL, aN, 0), plotAxisConv(PL, aN, 1)>>, aN,
                [a |-> aN, kind |-> AXIS_SLAVE_HOLD_AS_IS, b |-> bN,
                 s |-> axis[aN].scale, o |-> axis[aN].offset,
                 sB |-> axis[bN].scale, oB |-> axis[bN].offset])

SlaveAxisDisable(aN) ==
    Slaved(plotAxisSlave(PL, aN, -1, 0, 0, AXIS_SLAVE_DISABLE), "Disable",
           <<aN, Pending(aN), axis[axis[aN].slave_N].scale,
             axis[axis[aN].slave_N].offset>>,
           SelectSeq(hist.ref, LAMBDA r : r.a # aN))

NextSlave ==
    \/ SlaveDataAlloc
    \/ \E fN \in {0, 1} : SlaveFigureAdd(fN, 2 * fN, 1)
    \/ \E aN \in AxisIds, min \in {0, 1} : SlaveAxisScaleManual(aN, min, min + 1)
    \/ \E aN \in AxisIds, bN \in AxisIds : SlaveAxisEnable(aN, bN, 2, 1)
    \/ \E aN \in AxisIds, bN \in AxisIds : SlaveAxisHold(aN, bN)
    \/ \E aN \in AxisIds : SlaveAxisDisable(aN)

SpecSlave == InitFig /\ [][NextSlave]_vars

----------------------------------------------------------------------------
(* A polynomial fit of a figure whose axes were scaled and slaved.  The    *)
(* axes as the call found them are kept in hist.ref, the figure in         *)
(* hist.arg and the filter handed to plotDataPolyfit in hist.out.          *)

FitOps == 5

Fitted(p, op, arg, out) ==
    /\ hist.n < FitOps
    /\ Becomes(p)
    /\ hist' = [NoHist EXCEPT !.op = op, !.n = hist.n + 1, !.arg = arg,
                              !.ref = <<axis>>, !.out = out]

FitDataAlloc ==
    /\ data[0].column_N = 0
    /\ Becomes(plotDataAlloc(PL, 0, 1, MaxLen - 1, PLOT_CHUNK_MAX))
    /\ hist' = [NoHist EXCEPT !.op = "DataAlloc", !.n = hist.n]

FitFigureAdd(fN, aX, aY) ==
    /\ data[0].column_N # 0
    /\ fN = plotGetFreeFigure(PL)
    /\ Becomes(plotFigureAdd(PL, fN, 0, -1, 0, aX, aY))
    /\ hist' = [NoHist EXCEPT !.op = "FigureAdd", !.n = hist.n]

FitAxisScaleManual(aN, min, max) ==
    /\ axis[aN].busy # AXIS_FREE
    /\ Fitted(plotAxisScaleManual(PL, aN, min, max), "ScaleManual", aN, <<>>)

FitAxisSlave(aN, bN, scale, offset) ==
    /\ axis[aN].busy # AXIS_FREE
    /\ Fitted(plotAxisSlave(PL, aN, bN, scale, offset, AXIS_SLAVE_ENABLE),
              "Enable", aN, <<>>)

FitFigureSubtractPolifit(fN_1, poly_N) ==
    /\ figure[fN_1].busy # 0
    /\ plotGetFreeFigure(PL) # -1
    /\ plotGetFreeSubtract(PL, figure[fN_1].data_N) # -1
    /\ Fitted(plotFigureSubtractPolifit(PL, fN_1, poly_N), "Polifit", fN_1,
              <<PolifitFilter(PL, fN_1)>>)

NextFit ==
    \/ FitDataAlloc
    \/ \E fN \in {0, 1} : FitFigureAdd(fN, 0, 1 + fN)
    \/ \E aN \in AxisIds, min \in {0, 1} : FitAxisScaleManual(aN, min, min + 1)
    \/ \E aN \in AxisIds, bN \in AxisIds, offset \in {0, 1} :
          FitAxisSlave(aN, bN, 2, offset)
    \/ \E fN_1 \in {0, 1}, poly_N \in {0, 1} :
          FitFigureSubtractPolifit(fN_1, poly_N)

SpecFit == InitFig /\ [][NextFit]_vars

----------------------------------------------------------------------------
(* The draw specification: a dataset is loaded and figures are put on it,  *)
(* and then frames are drawn by calls of plotDrawFigureTrialAll that the   *)
(* clock cuts after 1..MaxPasses passes of its loop.                       *)

MaxPasses == 2
MaxDraws == 4
DrawInserts == 3

DrawValues == {0, 100, NaN}

(* the sketch list from hN on, as what is drawn from it *)
RECURSIVE SketchListOf(_, _)
SketchListOf(pl, hN) ==
    IF hN < 0 THEN <<>>
    ELSE <<[figure_N |-> pl.sketch[hN].figure_N,
            drawing  |-> pl.sketch[hN].drawing,
            width    |-> pl.sketch[hN].width,
            points   |-> pl.sketch[hN].points]>>
         \o SketchListOf(pl, pl.sketch[hN].linked)

(* the list a finished frame leaves to be drawn *)
SketchTodraw(pl) == SketchListOf(pl, pl.sketch_list_todraw)

Between(p, op) ==
    /\ hist.n = 0
    /\ Becomes(p)
    /\ hist' = [hist EXCEPT !.op = op]

DrawDataAlloc ==
    /\ data[0].column_N = 0
    /\ Between(plotDataAlloc(PL, 0, 1, MaxLen, PLOT_CHUNK_MAX), "DataAlloc")

DrawDataInsert(v) ==
    /\ data[0].column_N # 0
    /\ hist.ins[0] < DrawInserts
    /\ hist.n = 0
    /\ Becomes(plotDataInsert(PL, 0, v, hist.ins[0]))
    /\ hist' = [hist EXCEPT !.ins[0] = @ + 1, !.op = "DataInsert"]

DrawFigureAdd(fN) ==
    /\ figure[fN].busy = 0
    /\ Between(plotFigureAdd(PL, fN, 0, -1, 0, 0, 1), "FigureAdd")

DrawAxisScaleManual(aN) ==
    /\ axis[aN].busy # AXIS_FREE
    /\ axis[aN].scale = 0
    /\ Between(plotAxisScaleManual(PL, aN, 0, 1), "AxisScaleManual")

(* the application picks how a figure is drawn *)
DrawFigureDrawing(fN, drawing) ==
    /\ figure[fN].busy # 0
    /\ figure[fN].drawing # drawing
    /\ Between([PL EXCEPT !.figure[fN].drawing = drawing], "FigureDrawing")

(* A call of plotDrawFigureTrialAll.  When it starts a frame, the list     *)
(* that one call without a deadline makes of the same state is remembered  *)
(* in hist.ref; hist.cuts counts the calls of the frame the clock cut.     *)
Drawn(p, ref) ==
    /\ hist.n < MaxDraws
    /\ Becomes(p)
    /\ hist' = [hist EXCEPT
                  !.op = "Draw",
                  !.n = @ + 1,
                  !.ref = IF draw_in_progress = 0 THEN ref ELSE @,
                  !.cuts = IF p.draw_in_progress = 0 THEN @
                           ELSE IF draw_in_progress = 0 THEN 1 ELSE @ + 1,
                  !.frame = IF draw_in_progress = 0
                            THEN IF p.draw_in_progress = 0 THEN 0 ELSE 1
                            ELSE @]

DrawFigureTrialAll(passes) ==
    /\ \E fN \in FigureIds : figure[fN].busy # 0
    /\ Drawn(plotDrawFigureTrialAll(PL, passes),
             IF draw_in_progress = 0
             THEN SketchTodraw(plotDrawFigureTrialAll(PL, -1))
             ELSE <<>>)

NextDraw ==
    \/ DrawDataAlloc
    \/ \E v \in DrawValues : DrawDataInsert(v)
    \/ \E fN \in {0, 1} : DrawFigureAdd(fN)
    \/ DrawAxisScaleManual(1)
    \/ DrawFigureDrawing(1, "DOT")
    \/ \E passes \in 1..MaxPasses : DrawFigureTrialAll(passes)

SpecDraw == InitFig /\ [][NextDraw]_vars

----------------------------------------------------------------------------
(* The frame specification: rows are inserted, figures are added, hidden   *)
(* and removed and the sketch is cleaned while frames are drawn, by calls  *)
(* of plotDrawFigureTrialAll that the clock cuts after 1..MaxPasses passes *)
(* of its loop.  hist.n counts the calls, hist.arg holds the engine as the *)
(* call found it.                                                          *)

FrameInserts == 4
FrameDraws == 3

Framed(p, op, n, ins) ==
    /\ Becomes(p)
    /\ hist' = [NoHist EXCEPT !.op = op, !.n = n, !.ins[0] = ins,
                              !.arg = IF op = "Draw" THEN PL ELSE 0]

FrameDataAlloc ==
    /\ data[0].column_N = 0
    /\ Framed(plotDataAlloc(PL, 0, 1, MaxLen, PLOT_CHUNK_MAX), "DataAlloc",
              hist.n, hist.ins[0])

FrameDataInsert(v) ==
    /\ data[0].column_N # 0
    /\ hist.ins[0] < FrameInserts
    /\ Framed(plotDataInsert(PL, 0, v, hist.ins[0]), "DataInsert",
              hist.n, hist.ins[0] + 1)

FrameFigureAdd(fN) ==
    /\ data[0].column_N # 0
    /\ figure[fN].busy = 0
    /\ Framed(plotFigureAdd(PL, fN, 0, -1, 0, 0, 1), "FigureAdd",
              hist.n, hist.ins[0])

FrameFigureRemove(fN) ==
    /\ figure[fN].busy # 0
    /\ Framed(plotFigureRemove(PL, fN), "FigureRemove", hist.n, hist.ins[0])

FrameSketchClean ==
    /\ draw_in_progress # 0
    /\ Framed(plotSketchClean(PL), "SketchClean", hist.n, hist.ins[0])

FrameDrawFigureTrialAll(passes) ==
    /\ hist.n < FrameDraws
    /\ \E fN \in FigureIds : figure[fN].busy # 0
    /\ Framed(plotDrawFigureTrialAll(PL, passes), "Draw",
              hist.n + 1, hist.ins[0])

NextFrame ==
    \/ FrameDataAlloc
    \/ FrameDataInsert(1)
    \/ \E fN \in {0, 1} : FrameFigureAdd(fN)
    \/ FrameFigureRemove(1)
    \/ FrameSketchClean
    \/ \E passes \in 1..MaxPasses : FrameDrawFigureTrialAll(passes)

SpecFrame == InitFig /\ [][NextFrame]_vars

(* The frame with hidden figures: the application hides and shows figures  *)
(* between the calls, figures come and go and the sketch is cleaned.  Each  *)
(* operation keeps the engine as it found it in hist.arg.                  *)
SchedInserts == 3
SchedDraws == 3
SchedOps == 2

Scheduled(p, op, n, ins, cuts) ==
    /\ Becomes(p)
    /\ hist' = [NoHist EXCEPT !.op = op, !.n = n, !.ins[0] = ins,
                              !.cuts = cuts, !.arg = PL]

SchedDataAlloc ==
    /\ data[0].column_N = 0
    /\ Scheduled(plotDataAlloc(PL, 0, 1, MaxLen, PLOT_CHUNK_MAX), "DataAlloc",
                 hist.n, hist.ins[0], hist.cuts)

SchedDataInsert(v) ==
    /\ data[0].column_N # 0
    /\ hist.ins[0] < SchedInserts
    /\ hist.n = 0
    /\ Scheduled(plotDataInsert(PL, 0, v, hist.ins[0]), "DataInsert",
                 hist.n, hist.ins[0] + 1, hist.cuts)

SchedFigureAdd(fN) ==
    /\ data[0].column_N # 0
    /\ figure[fN].busy = 0
    /\ Scheduled(plotFigureAdd(PL, fN, 0, -1, 0, 0, 1), "FigureAdd",
                 hist.n, hist.ins[0], hist.cuts)

(* the application hides or shows a figure *)
SchedFigureHidden(fN) ==
    /\ figure[fN].busy # 0
    /\ hist.cuts < SchedOps
    /\ Scheduled([PL EXCEPT !.figure[fN].hidden = 1 - figure[fN].hidden],
                 "FigureHidden", hist.n, hist.ins[0], hist.cuts + 1)

SchedFigureRemove(fN) ==
    /\ figure[fN].busy # 0
    /\ hist.cuts < SchedOps
    /\ Scheduled(plotFigureRemove(PL, fN), "FigureRemove",
                 hist.n, hist.ins[0], hist.cuts + 1)

SchedSketchClean ==
    /\ draw_in_progress # 0
    /\ hist.cuts < SchedOps
    /\ Scheduled(plotSketchClean(PL), "SketchClean",
                 hist.n, hist.ins[0], hist.cuts + 1)

SchedDrawFigureTrialAll(passes) ==
    /\ hist.n < SchedDraws
    /\ \E fN \in FigureIds : figure[fN].busy # 0
    /\ Scheduled(plotDrawFigureTrialAll(PL, passes), "Draw",
                 hist.n + 1, hist.ins[0], hist.cuts)

NextSched ==
    \/ SchedDataAlloc
    \/ SchedDataInsert(1)
    \/ \E fN \in {0, 1} : SchedFigureAdd(fN)
    \/ \E fN \in {0, 1} : SchedFigureHidden(fN)
    \/ SchedFigureRemove(1)
    \/ SchedSketchClean
    \/ \E passes \in 1..MaxPasses : SchedDrawFigureTrialAll(passes)

SpecSched == InitFig /\ [][NextSched]_vars

----------------------------------------------------------------------------
(* Progressive drawing of datasets and figures that stay as they are: the  *)
(* application allocates, inserts, adds figures and sets the Y scale, and  *)
(* from its first call of plotDrawFigureTrialAll on (hist.frame = 1) it    *)
(* only draws.  hist.cuts counts the calls of the frame, up to LiveCuts.   *)

LiveInserts == 4
LiveCuts == 3

Setup(p, op, ins) ==
    /\ hist.frame = 0
    /\ Becomes(p)
    /\ hist' = [NoHist EXCEPT !.op = op, !.ins[0] = ins]

LiveDataAlloc(lN) ==
    /\ data[0].column_N = 0
    /\ Setup(plotDataAlloc(PL, 0, 1, lN, PLOT_CHUNK_MAX), "DataAlloc", 0)

LiveDataInsert(v) ==
    /\ data[0].column_N # 0
    /\ hist.ins[0] < LiveInserts
    /\ Setup(plotDataInsert(PL, 0, v, hist.ins[0]), "DataInsert",
             hist.ins[0] + 1)

LiveFigureAdd(fN, drawing) ==
    /\ data[0].column_N # 0
    /\ fN = plotGetFreeFigure(PL)
    /\ Setup([plotFigureAdd(PL, fN, 0, -1, 0, 0, 1)
                 EXCEPT !.figure[fN].drawing = drawing],
             "FigureAdd", hist.ins[0])

LiveAxisScaleManual(aN) ==
    /\ axis[aN].busy # AXIS_FREE
    /\ axis[aN].scale = 0
    /\ Setup(plotAxisScaleManual(PL, aN, 0, 1), "AxisScaleManual", hist.ins[0])

(* what a call of plotDrawFigureTrialAll leaves in the history; kept      *)
(* alternates, so that no call leaves the history as it was                *)
LiveCalls ==
    [NoHist EXCEPT
        !.op = "Draw", !.ins = hist.ins, !.frame = 1,
        !.kept = ~hist.kept,
        !.cuts = IF draw_in_progress = 0 THEN 1
                 ELSE IF hist.cuts < LiveCuts THEN hist.cuts + 1
                 ELSE hist.cuts]

LiveDrawFigureTrialAll(passes) ==
    /\ \E fN \in FigureIds : figure[fN].busy # 0
    /\ Becomes(plotDrawFigureTrialAll(PL, passes))
    /\ hist' = LiveCalls

(* a call of plotDrawFigureTrialAll is made *)
LiveCalled ==
    /\ \E fN \in FigureIds : figure[fN].busy # 0
    /\ hist' = LiveCalls

NextLive ==
    \/ \E lN \in (MaxLen - 1)..MaxLen : LiveDataAlloc(lN)
    \/ \E v \in {0, 100} : LiveDataInsert(v)
    \/ \E fN \in {0, 1}, drawing \in {"LINE", "DOT"} : LiveFigureAdd(fN, drawing)
    \/ LiveAxisScaleManual(1)
    \/ \E passes \in 1..MaxPasses : LiveDrawFigureTrialAll(passes)

(* the application's draw loop keeps calling plotDrawFigureTrialAll while  *)
(* a figure is there                                                       *)
SpecLive == InitFig /\ [][NextLive]_vars /\ WF_hist(LiveCalled)

(* Culling through the range cache: a dataset of two chunks holding values *)
(* above, inside and below the viewport, a LINE or DASH figure, the Y      *)
(* scale, and frames drawn by calls cut after 1..MaxPasses passes.         *)
CullInserts == 3

CullValues == {0 - 100, 0, 100}

(* The pass over the live rows that looks at every row: the end points of  *)
(* the segments between consecutive finite points that drawLineTrial       *)
(* reports on the viewport.                                                *)
UnculledSeen(c, last, X, Y) ==
    IF drawLineTrial(viewport,
                     FMulAdd(last[1], c.sX.scale, c.sX.offset),
                     FMulAdd(last[2], c.sY.scale, c.sY.offset),
                     FMulAdd(X, c.sX.scale, c.sX.offset),
                     FMulAdd(Y, c.sY.scale, c.sY.offset))
    THEN <<last, <<X, Y>>>> ELSE <<>>

UnculledFinite(c, X, Y) ==
    /\ fp_isfinite(FMulAdd(X, c.sX.scale, c.sX.offset))
    /\ fp_isfinite(FMulAdd(Y, c.sY.scale, c.sY.offset))

RECURSIVE UnculledPass(_, _, _, _, _)
UnculledRow(c, rN, id_N, line, last, X, Y) ==
    IF UnculledFinite(c, X, Y)
    THEN (IF line THEN UnculledSeen(c, last, X, Y) ELSE <<>>)
         \o UnculledPass(c, RingNext(c.d, rN), id_N + 1, TRUE, <<X, Y>>)
    ELSE UnculledPass(c, RingNext(c.d, rN), id_N + 1, FALSE, last)

UnculledPass(c, rN, id_N, line, last) ==
    IF ~plotDataGetOk(c.d, rN) THEN <<>>
    ELSE UnculledRow(c, rN, id_N, line, last,
                     ColumnOf(c.d, c.xN, rN, id_N),
                     ColumnOf(c.d, c.yN, rN, id_N))

Unculled(pl, fN) ==
    UnculledPass([d  |-> pl.data[pl.figure[fN].data_N],
                  xN |-> pl.figure[fN].column_X,
                  yN |-> pl.figure[fN].column_Y,
                  sX |-> TrialScaleX(pl, pl.figure[fN]),
                  sY |-> TrialScaleY(pl, pl.figure[fN])],
                 pl.data[pl.figure[fN].data_N].head_N,
                 pl.data[pl.figure[fN].data_N].id_N, FALSE, <<0, 0>>)

CullSetup(p, op, ins) ==
    /\ draw_in_progress = 0
    /\ Becomes(p)
    /\ hist' = [NoHist EXCEPT !.op = op, !.ins[0] = ins]

CullDataAlloc(lN) ==
    /\ data[0].column_N = 0
    /\ CullSetup(plotDataAlloc(PL, 0, 1, lN, PLOT_CHUNK_MAX), "DataAlloc", 0)

CullDataInsert(v) ==
    /\ data[0].column_N # 0
    /\ hist.ins[0] < CullInserts
    /\ CullSetup(plotDataInsert(PL, 0, v, hist.ins[0]), "DataInsert",
                 hist.ins[0] + 1)

CullFigureAdd(drawing) ==
    /\ data[0].column_N # 0
    /\ figure[0].busy = 0
    /\ CullSetup([plotFigureAdd(PL, 0, 0, -1, 0, 0, 1)
                     EXCEPT !.figure[0].drawing = drawing],
                 "FigureAdd", hist.ins[0])

CullAxisScaleManual(aN) ==
    /\ axis[aN].busy # AXIS_FREE
    /\ axis[aN].scale = 0
    /\ CullSetup(plotAxisScaleManual(PL, aN, 0, 1), "AxisScaleManual",
                 hist.ins[0])

(* A call of plotDrawFigureTrialAll.  At the start of a frame the unculled *)
(* pass over the same state is remembered in hist.ref, and in hist.kept    *)
(* whether the whole sketch pool was free.                                 *)
CullDrawFigureTrialAll(passes) ==
    /\ figure[0].busy # 0
    /\ Becomes(plotDrawFigureTrialAll(PL, passes))
    /\ hist' = [NoHist EXCEPT
                  !.op = "Draw", !.ins = hist.ins, !.frame = 1,
                  !.ref = IF draw_in_progress = 0 THEN Unculled(PL, 0)
                          ELSE hist.ref,
                  !.kept = IF draw_in_progress = 0
                           THEN sketch_list_todraw = -1
                           ELSE hist.kept]

NextCull ==
    \/ \E lN \in (MaxLen - 1)..MaxLen : CullDataAlloc(lN)
    \/ \E v \in CullValues : CullDataInsert(v)
    \/ \E drawing \in {"LINE", "DASH"} : CullFigureAdd(drawing)
    \/ CullAxisScaleManual(1)
    \/ \E passes \in 1..MaxPasses : CullDrawFigureTrialAll(passes)

SpecCull == InitFig /\ [][NextCull]_vars

(* The paint order: two datasets whose rings overflow, so that their id_N  *)
(* differ, figures on either of them, hidden or shown, and from the first  *)
(* call on frames drawn by calls cut after 1..MaxPasses passes.            *)
PaintInserts == 4

PaintSetup(p, op, ins) ==
    /\ hist.frame = 0
    /\ Becomes(p)
    /\ hist' = [NoHist EXCEPT !.op = op, !.ins = ins]

PaintDataAlloc(dN) ==
    /\ data[dN].column_N = 0
    /\ PaintSetup(plotDataAlloc(PL, dN, 1, MaxLen - 1, PLOT_CHUNK_MAX),
                  "DataAlloc", hist.ins)

PaintDataInsert(dN, v) ==
    /\ data[dN].column_N # 0
    /\ hist.ins[dN] < PaintInserts
    /\ PaintSetup(plotDataInsert(PL, dN, v, hist.ins[dN]), "DataInsert",
                  [hist.ins EXCEPT ![dN] = @ + 1])

PaintFigureAdd(fN, dN) ==
    /\ data[dN].column_N # 0
    /\ figure[fN].busy = 0
    /\ PaintSetup(plotFigureAdd(PL, fN, dN, -1, 0, 0, 1), "FigureAdd",
                  hist.ins)

(* the application hides or shows a figure *)
PaintFigureHidden(fN) ==
    /\ figure[fN].busy # 0
    /\ PaintSetup([PL EXCEPT !.figure[fN].hidden = 1 - figure[fN].hidden],
                  "FigureHidden", hist.ins)

PaintDrawFigureTrialAll(passes) ==
    /\ \E fN \in FigureIds : figure[fN].busy # 0
    /\ Becomes(plotDrawFigureTrialAll(PL, passes))
    /\ hist' = [NoHist EXCEPT !.op = "Draw", !.ins = hist.ins, !.frame = 1]

NextPaint ==
    \/ \E dN \in DataIds : PaintDataAlloc(dN)
    \/ \E dN \in DataIds : PaintDataInsert(dN, 1)
    \/ \E fN \in {0, 1}, dN \in DataIds : PaintFigureAdd(fN, dN)
    \/ \E fN \in {0, 1} : PaintFigureHidden(fN)
    \/ \E passes \in 1..MaxPasses : PaintDrawFigureTrialAll(passes)

SpecPaint == InitFig /\ [][NextPaint]_vars

----------------------------------------------------------------------------
(* Properties of the dataset store and the range cache.                    *)

SetMin(S) == CHOOSE x \in S : \A y \in S : x <= y
SetMax(S) == CHOOSE x \in S : \A y \in S : x >= y

(* The finite values of column cN over the live rows [head_N, tail_N). *)
LiveFinite(d, cN) ==
    {v \in {ColumnOf(d, cN, LiveIndex(d, i), d.id_N + i) :
                i \in 0..(LiveCount(d) - 1)} : fp_isfinite(v)}

(* C1: the aggregate fmin / fmax of the entry that plotDataRangeCacheFetch *)
(* has just returned are the minimum and the maximum of the finite values  *)
(* of its column over the live rows, whenever there is such a value; no    *)
(* evicted row contributes.                                                *)
C1_FetchReportsLiveRange ==
    hist.ret >= 0 =>
        LET e == rcache[hist.ret]
            S == LiveFinite(data[e.data_N], e.column_N)
        IN  S # {} => e.fmin = SetMin(S) /\ e.fmax = SetMax(S)

(* C2: every busy range-cache entry has computed = 0 and cached = 0 for    *)
(* every chunk of its dataset written (by plotDataInsert or plotDataWrite) *)
(* since the entry was last scanned by plotDataRangeCacheFetch; the wipe   *)
(* memo never leaves a written chunk computed.                             *)
C2_WrittenChunkNotComputed ==
    \A N \in CacheIds :
        rcache[N].busy # 0 =>
            \A k \in hist.wr[N] :
                rcache[N].chunk[k].computed = 0 /\ rcache[N].cached = 0

(* C2 witness: an entry both of whose chunks were written since its scan,  *)
(* the later writes of a chunk having been let through by the memo.        *)
C2_Witness ==
    \E N \in CacheIds :
        /\ rcache[N].busy # 0
        /\ hist.wr[N] = ChunkIds
        /\ rcache_wipe_data_N = rcache[N].data_N
        /\ hist.ins[rcache[N].data_N] >= 3

(* C3: the row at every valid ring index r holds the inserted row whose    *)
(* ordinal is id_N + ((r - head_N) mod length_N); the valid rows are the   *)
(* (tail_N - head_N) mod length_N rows inserted last, so that id_N is the  *)
(* number of evicted rows.                                                 *)
C3_RingLogicalIds ==
    \A dN \in DataIds :
        LET d == data[dN]
        IN  /\ \A i \in 0..(LiveCount(d) - 1) :
                   d.rows[LiveIndex(d, i)].ord = d.id_N + i
            /\ hist.ins[dN] - d.id_N = LiveCount(d)
            /\ d.id_N >= 0

(* C3 witness: a wrapped ring that has evicted rows. *)
C3_Witness ==
    data[0].id_N >= 2 /\ data[0].tail_N < data[0].head_N
        /\ LiveCount(data[0]) >= 2

(* The ordinals of the live rows, oldest first. *)
LiveOrds(d) == [i \in 1..LiveCount(d) |-> d.rows[LiveIndex(d, i - 1)].ord]

(* C4 as stated: a ring of length_N rows keeps the last length_N inserted  *)
(* rows; with length 4 the five inserts 1..5 (ordinals 0..4) leave the     *)
(* rows 2, 3, 4, 5 with head id 1 and last id 4.                           *)
C4_KeepsLengthRows ==
    /\ (data[0].length_N = 4 /\ hist.ins[0] = 5) =>
          (LiveOrds(data[0]) = <<1, 2, 3, 4>> /\ data[0].id_N = 1)
    /\ (data[0].length_N > 0 /\ hist.ins[0] > data[0].length_N) =>
          LiveCount(data[0]) = data[0].length_N

(* C4 amended: tail_N = head_N means empty, so the ring keeps the last     *)
(* length_N - 1 inserted rows; with length 4 the five inserts 1..5 leave   *)
(* the rows 3, 4, 5 with head id 2 and last id 4.                          *)
C4_KeepsLengthMinusOneRows ==
    /\ (data[0].length_N = 4 /\ hist.ins[0] = 5) =>
          (LiveOrds(data[0]) = <<2, 3, 4>> /\ data[0].id_N = 2)
    /\ (data[0].length_N > 0 /\ hist.ins[0] >= data[0].length_N) =>
          /\ LiveCount(data[0]) = data[0].length_N - 1
          /\ LiveOrds(data[0]) =
                [i \in 1..(data[0].length_N - 1) |->
                    hist.ins[0] - data[0].length_N + i]

(* C4 witness: the scenario itself, five inserts into a ring of length 4. *)
C4_Witness == data[0].length_N = 4 /\ hist.ins[0] = 5

----------------------------------------------------------------------------
(* Figures, axes and derived-column slots.                                 *)

(* a busy figure lies on aN, or on a slave whose base is aN *)
FigureUsesAxis(aN) ==
    \E fN \in FigureIds :
        /\ figure[fN].busy # 0
        /\ \E e \in {figure[fN].axis_X, figure[fN].axis_Y} :
              \/ e = aN
              \/ e \in AxisIds /\ axis[e].slave # 0 /\ axis[e].slave_N = aN

(* the columns a slot is computed from *)
SlotInputs(u) ==
    IF u.busy = "FREE" THEN {}
    ELSE IF u.busy \in {"BINARY_SUBTRACTION", "BINARY_ADDITION",
                        "BINARY_MULTIPLICATION", "BINARY_HYPOTENUSE"}
    THEN {u.column_1, u.column_2}
    ELSE {u.column_1}

(* the columns of dataset d that the columns R are computed from, R included *)
RECURSIVE ColumnsNeeded(_, _)
ColumnsNeeded(d, R) ==
    LET more == R \cup UNION {SlotInputs(d.sub[c - d.column_N]) :
                                c \in {c \in R : c >= d.column_N}}
    IN  IF more = R THEN R ELSE ColumnsNeeded(d, more)

FigureColumns(dN) ==
    UNION {{figure[fN].column_X, figure[fN].column_Y} :
            fN \in {fN \in FigureIds : figure[fN].busy # 0
                                       /\ figure[fN].data_N = dN}}

(* C6: after plotFigureRemove every busy axis carries a remaining busy     *)
(* figure, directly or as the base of a slave that carries one, and every  *)
(* live slot is a column of a remaining busy figure of its dataset or a    *)
(* transitive input of such a column.                                      *)
C6_RemoveLeavesNothingUnused ==
    hist.op = "FigureRemove" =>
        /\ \A aN \in AxisIds : axis[aN].busy # AXIS_FREE => FigureUsesAxis(aN)
        /\ \A dN \in DataIds : \A sN \in SubIds :
              data[dN].sub[sN].busy # "FREE" =>
                 (sN + data[dN].column_N)
                    \in ColumnsNeeded(data[dN], FigureColumns(dN))

(* C7: the slave relation has depth one: the base of an axis with the      *)
(* slave flag set is not a slave, and no busy slave is its own base.       *)
C7_SlaveDepthOne ==
    \A aN \in AxisIds :
        axis[aN].slave # 0 =>
            /\ axis[axis[aN].slave_N].slave = 0
            /\ axis[aN].busy # AXIS_FREE => axis[aN].slave_N # aN

(* C8: the focused axes are never slaves. *)
C8_FocusNotSlave ==
    /\ on_X \in AxisIds => axis[on_X].slave = 0
    /\ on_Y \in AxisIds => axis[on_Y].slave = 0

(* C9: a busy figure has its X end on an axis of type X or a free one, its *)
(* Y end on an axis of type Y or a free one, and the two are different.    *)
C9_FigureAxesTyped ==
    \A fN \in FigureIds :
        figure[fN].busy # 0 =>
            /\ figure[fN].axis_X \in AxisIds
            /\ figure[fN].axis_Y \in AxisIds
            /\ axis[figure[fN].axis_X].busy \in {AXIS_BUSY_X, AXIS_FREE}
            /\ axis[figure[fN].axis_Y].busy \in {AXIS_BUSY_Y, AXIS_FREE}
            /\ figure[fN].axis_X # figure[fN].axis_Y

(* C10: a call with an index outside its range leaves the engine as it was *)
(* and reads or writes nothing outside the engine's arrays.                *)
C10_OutOfRangeIsNoOp ==
    [][hist'.op = "OutOfRange" =>
          (~oob' /\ UNCHANGED <<dataVars, figVars, sketchVars>>)]_vars

----------------------------------------------------------------------------
(* The draw engine.                                                        *)

(* C5: when a frame is complete, the list to draw is the one a single call *)
(* without a deadline makes of the state the frame started in, however the *)
(* clock cut the frame into calls: the same chunks in the same order, with *)
(* the same figure, drawing, width and points.                             *)
C5_CutFrameSameSketch ==
    (hist.op = "Draw" /\ draw_in_progress = 0) =>
        SketchTodraw(PL) = hist.ref

C5_Witness ==
    /\ hist.op = "Draw"
    /\ draw_in_progress = 0
    /\ hist.frame = 1
    /\ hist.cuts >= 2
    /\ Len(hist.ref) >= 2
    /\ \E i \in 1..Len(hist.ref) : Len(hist.ref[i].points) >= 2

(* C11: a call that breaks a rule of the axes (plotFigureAdd with aX = aY  *)
(* or an axis of the other kind; plotAxisSlave ENABLE / HOLD with aN = bN, *)
(* a base that is a slave, or aN the base of another slave) changes no     *)
(* figure, axis, draw or focus field.                                      *)
C11_SemanticRejected ==
    [][hist'.op = "Semantic" => UNCHANGED <<figVars, draw>>]_vars


(* The sum of the finite values of column cN over the live rows from the   *)
(* head to the i-th.                                                       *)
RECURSIVE LiveSum(_, _, _)
LiveSum(d, cN, i) ==
    IF i < 0 THEN 0
    ELSE LET v == ColumnOf(d, cN, LiveIndex(d, i), d.id_N + i)
         IN  LiveSum(d, cN, i - 1) + (IF fp_isfinite(v) THEN v ELSE 0)

(* C12: with a FILTER_CUMULATIVE slot kept up to date by                   *)
(* plotDataSubtract(d, -1) after each insert, or recomputed as a whole,    *)
(* the derived value at every live row is the sum of the finite source     *)
(* values of the live rows from head_N up to that row, also after the ring *)
(* has overflowed.                                                         *)
C12_CumulativeIsLiveSum ==
    (/\ data[0].sub[0].busy = "FILTER_CUMULATIVE"
     /\ \/ hist.kept /\ data[0].sub_N = data[0].tail_N
        \/ hist.op = "SubtractOne") =>
        \A i \in 0..(LiveCount(data[0]) - 1) :
            data[0].derived[0][LiveIndex(data[0], i)]
                = LiveSum(data[0], data[0].sub[0].column_1, i)


(* C13 as stated: TIME_UNWRAP adds prev - prev2 only after two backward    *)
(* steps, and the rows 0.0, 0.5, 1.0, 0.2, 0.7, 1.2 come out as            *)
(* 0.0, 0.5, 1.0, 1.2, 1.7, 2.2 (in tenths).                               *)
C13_ExampleAsClaimed ==
    (hist.kept /\ Len(hist.out) = Len(ScenarioB)) =>
        hist.out = <<0, 5, 10, 12, 17, 22>>

(* C13: TIME_UNWRAP emits x + unwrap; on a backward step unwrap grows by   *)
(* prev - x, and by prev - prev2 as well when the step before it went      *)
(* forward (prev2 < prev), so that the rows 0.0, 0.5, 1.0, 0.2, 0.7, 1.2   *)
(* given to plotDataSubtract(d, -1) one by one come out as                 *)
(* 0.0, 0.5, 1.0, 1.5, 2.0, 2.5 (in tenths).                               *)
C13_ExampleUnwrapped ==
    (hist.kept /\ Len(hist.out) = hist.ins[0]) =>
        hist.out = SubSeq(<<0, 5, 10, 15, 20, 25>>, 1, Len(hist.out))

C13_Witness ==
    hist.kept /\ Len(hist.out) = Len(ScenarioB) /\ hist.op = "Subtract"


(* C14: once plotGetSubtractTimeUnwrap or plotDataSubtract (of the slot or *)
(* of all slots, in any succession) has returned, the column of a          *)
(* TIME_UNWRAP slot over finite source values does not decrease along the  *)
(* live rows.                                                              *)
C14_UnwrapNonDecreasing ==
    (/\ data[0].sub[0].busy = "TIME_UNWRAP"
     /\ hist.op \in {"TimeUnwrap", "Subtract", "SubtractOne"}) =>
        \A i \in 1..(LiveCount(data[0]) - 1) :
            data[0].derived[0][LiveIndex(data[0], i - 1)]
                <= data[0].derived[0][LiveIndex(data[0], i)]

(* a backward step of the source has been unwrapped by plotDataSubtract(-1) *)
(* after the ring had overflowed                                            *)
C14_Witness ==
    /\ data[0].sub[0].busy = "TIME_UNWRAP"
    /\ hist.op = "Subtract"
    /\ data[0].id_N > 0
    /\ \E i \in 1..(LiveCount(data[0]) - 1) :
          /\ data[0].rows[LiveIndex(data[0], i)].val
                < data[0].rows[LiveIndex(data[0], i - 1)].val
          /\ data[0].derived[0][LiveIndex(data[0], i - 1)]
                <= data[0].derived[0][LiveIndex(data[0], i)]


(* C15: plotDataSliceGet(d, c, v) returns a live row whose finite value at *)
(* column c is nearest to v among all the live rows, and none only when no *)
(* live row has a finite value there.                                      *)
C15_SliceIsNearest ==
    hist.op = "Slice" =>
        LET d == data[0]
            S == LiveFinite(d, 0)
        IN  IF S = {} THEN hist.ret = -1
            ELSE /\ hist.ret >= d.id_N
                 /\ hist.ret < d.id_N + LiveCount(d)
                 /\ LET x == d.rows[LiveIndex(d, hist.ret - d.id_N)].val
                    IN  /\ fp_isfinite(x)
                        /\ \A y \in S :
                              FAbs(hist.arg - x) <= FAbs(hist.arg - y)


(* The finite values of column cN over the live rows whose column cN_cond  *)
(* lies in [0, 1] after scale and offset.                                  *)
LiveFiniteCond(d, cN, cN_cond, scale, offset) ==
    {v \in {ColumnOf(d, cN, LiveIndex(d, i), d.id_N + i) :
            i \in {j \in 0..(LiveCount(d) - 1) :
                    LET fcond == FMulAdd(ColumnOf(d, cN_cond, LiveIndex(d, j),
                                                  d.id_N + j), scale, offset)
                    IN  fcond # NaN /\ fcond >= 0 /\ fcond <= 1}} :
        fp_isfinite(v)}

(* C16: plotDataRangeCond reports the minimum and the maximum of the       *)
(* finite values of column cN over exactly the live rows whose condition   *)
(* value scale * row[cN_cond] + offset lies in [0, 1], and nothing when    *)
(* there is no such row.                                                   *)
C16_CondIsRowScan ==
    hist.op = "Cond" =>
        LET S == LiveFiniteCond(data[0], hist.arg[1], hist.arg[2],
                                hist.arg[3], hist.arg[4])
        IN  IF S = {} THEN hist.out[1] = 0
            ELSE hist.out = <<1, SetMin(S), SetMax(S)>>

(* C17: after plotFigureRemove has run plotSubtractGarbage on the dataset  *)
(* of the removed figure, a slot of that dataset is live exactly when its  *)
(* column is a column of a busy figure of the dataset or an input of       *)
(* another live slot of it, and no live slot has an input column owned by  *)
(* a freed slot.                                                           *)
C17_GarbageFixpoint ==
    hist.op = "FigureRemove" =>
        \A sN \in SubIds :
            /\ data[figure[hist.arg].data_N].sub[sN].busy # "FREE"
                 <=> \/ (sN + data[figure[hist.arg].data_N].column_N)
                            \in FigureColumns(figure[hist.arg].data_N)
                     \/ \E tN \in SubIds \ {sN} :
                            (sN + data[figure[hist.arg].data_N].column_N)
                                \in SlotInputs(
                                      data[figure[hist.arg].data_N].sub[tN])
            /\ \A cN \in SlotInputs(data[figure[hist.arg].data_N].sub[sN]) :
                  cN >= data[figure[hist.arg].data_N].column_N
                     => data[figure[hist.arg].data_N]
                          .sub[cN - data[figure[hist.arg].data_N].column_N]
                          .busy # "FREE"

(* a slot that answers the request held in hist.arg *)
SlotRequested(u) ==
    IF hist.op = "GetSubtractScale"
    THEN /\ u.busy = "SCALE" /\ u.column_1 = hist.arg[1]
         /\ u.arg_1 = hist.arg[2] /\ u.arg_2 = hist.arg[3]
    ELSE u.busy = "TIME_UNWRAP" /\ u.column_1 = hist.arg[1]

(* C18: plotGetSubtractScale and plotGetSubtractTimeUnwrap, called while a *)
(* live slot of the kind with the same source column and parameters        *)
(* exists, return the column of such a slot and leave the busy slots as    *)
(* they were; no two live slots of a dataset hold the same scale or the    *)
(* same time unwrap request, however often it was made.                    *)
C18_Deduplicated ==
    /\ (/\ hist.op \in {"GetSubtractScale", "GetSubtractTimeUnwrap"}
        /\ \E sN \in SubIds : SlotRequested(hist.out[sN]))
          => /\ (hist.ret - data[0].column_N) \in SubIds
             /\ SlotRequested(hist.out[hist.ret - data[0].column_N])
             /\ \A sN \in SubIds :
                    data[0].sub[sN].busy = hist.out[sN].busy
    /\ \A sN \in SubIds : \A tN \in SubIds \ {sN} :
          ~ /\ data[0].sub[sN].busy \in {"SCALE", "TIME_UNWRAP"}
            /\ data[0].sub[sN].busy = data[0].sub[tN].busy
            /\ data[0].sub[sN].column_1 = data[0].sub[tN].column_1
            /\ data[0].sub[sN].busy = "SCALE"
                  => /\ data[0].sub[sN].arg_1 = data[0].sub[tN].arg_1
                     /\ data[0].sub[sN].arg_2 = data[0].sub[tN].arg_2

C18_Witness ==
    /\ hist.op = "GetSubtractScale"
    /\ \E sN \in SubIds : SlotRequested(hist.out[sN])
    /\ \E sN \in SubIds : data[0].sub[sN].busy = "TIME_UNWRAP"
    /\ data[0].length_N # 0 /\ figure[0].busy # 0

(* C19: when plotAxisSlave(a, b, s, o, ENABLE) has made a a slave and      *)
(* plotAxisSlave(a, DISABLE) is called next on a, a is independent with    *)
(* (scale, offset) = (s * sB, o * sB + oB), (sB, oB) being the transform   *)
(* of b when DISABLE is called.                                            *)
C19_SlaveBakeOut ==
    (hist.op = "Disable" /\ hist.arg[2] # {}) =>
        \A r \in hist.arg[2] :
            r.kind = AXIS_SLAVE_ENABLE =>
                /\ axis[r.a].slave = 0
                /\ axis[r.a].scale = FMulAdd(r.s, hist.arg[3], 0)
                /\ axis[r.a].offset = FMulAdd(r.o, hist.arg[3], hist.arg[4])

(* C20: plotAxisConv(a, v) is the same before and after                    *)
(* plotAxisSlave(a, b, HOLD_AS_IS), and when HOLD_AS_IS has made a a slave *)
(* and DISABLE is called next on a with the transform of b as HOLD_AS_IS   *)
(* found it, a has the (scale, offset) it had before HOLD_AS_IS.           *)
C20_HoldPreserves ==
    /\ hist.op = "Hold" =>
          /\ plotAxisConv(PL, hist.arg[1], 0) = hist.arg[2]
          /\ plotAxisConv(PL, hist.arg[1], 1) = hist.arg[3]
    /\ (hist.op = "Disable" /\ hist.arg[2] # {}) =>
          \A r \in hist.arg[2] :
              (/\ r.kind = AXIS_SLAVE_HOLD_AS_IS
               /\ r.sB = hist.arg[3] /\ r.oB = hist.arg[4])
                  => /\ axis[r.a].slave = 0
                     /\ axis[r.a].scale = r.s
                     /\ axis[r.a].offset = r.o

(* the draw cursor of figure fN denotes a live row of its dataset, or its  *)
(* tail: the row with the logical id draw[fN].id_N sits at draw[fN].rN     *)
CursorLive(d, w) ==
    /\ w.id_N - d.id_N \in 0..LiveCount(d)
    /\ w.rN = LiveIndex(d, w.id_N - d.id_N)

(* C21: while a frame is in progress the draw cursor of every unfinished   *)
(* busy figure denotes the live row it was saved at: an operation that     *)
(* moves head_N past a saved cursor leaves draw_in_progress = 0.           *)
C21_MutationEndsFrame ==
    draw_in_progress # 0 =>
        \A fN \in FigureIds :
            (figure[fN].busy # 0 /\ draw[fN].sketch # "FINISHED")
                => CursorLive(data[figure[fN].data_N], draw[fN])

(* the chunks of the sketch list from hN on *)
RECURSIVE ListChunks(_, _)
ListChunks(pl, hN) ==
    IF hN < 0 THEN {} ELSE {hN} \cup ListChunks(pl, pl.sketch[hN].linked)

Unfinished(pl) ==
    {fN \in FigureIds : pl.figure[fN].busy # 0
                        /\ pl.draw[fN].sketch # "FINISHED"}

(* the loop of plotDrawFigureTrial on figure fN as it ends: the cursor and *)
(* how the loop ended                                                      *)
TrialEndLoop(pl, c, f) ==
    IF f.drawing = "DOT" THEN DotLoop(c, TrialStart(pl, pl.draw[c.fN]))
    ELSE LineLoop(c, TrialStart(pl, pl.draw[c.fN]))

TrialEndY(x, y, fN) ==
    TrialEndLoop(plotSketchDataChunkSetUp(y.pl, fN),
                 TrialCtx(y.pl, fN, y.pl.figure[fN], x.ret, y.ret),
                 y.pl.figure[fN])

TrialEndX(x, fN) ==
    TrialEndY(x, plotDataRangeCacheFetch(x.pl, x.pl.figure[fN].data_N,
                                         x.pl.figure[fN].column_Y), fN)

TrialEnd(pl, fN) ==
    TrialEndX(plotDataRangeCacheFetch(pl, pl.figure[fN].data_N,
                                      pl.figure[fN].column_X), fN)

C23_FailedInsertDrops ==
    LET d == data[0]
    IN  /\ (hist.op = "DataInsert" /\
             ~hist.arg.data[0].raw[plotDataChunkN(hist.arg.data[0],
                                                  hist.arg.data[0].tail_N)])
               => data = hist.arg.data
        /\ \A i \in 0..(LiveCount(d) - 1) :
               d.rows[LiveIndex(d, i)].ord = d.id_N + i
        /\ hist.ins[0] - d.id_N = LiveCount(d)
        /\ d.id_N >= 0

(* C23 witness: inserts were dropped on a dataset without chunks, and the  *)
(* inserts stored after the chunks arrived have wrapped the ring.          *)
C23_Witness ==
    hist.cuts >= 2 /\ hist.op = "DataInsert" /\ data[0].id_N >= 1
        /\ data[0].tail_N < data[0].head_N

(* C24: after plotDataClean, plotDataResize or plotDataGrowUp of a dataset *)
(* no range-cache entry of the dataset is busy, after a removal that frees  *)
(* a derived slot no entry of the slot's column is busy, and                *)
(* plotDataRangeCacheFetch never answers with an entry whose bounds were    *)
(* cached before such an operation.                                        *)
C24_CacheInvalidated ==
    /\ hist.op \in {"DataClean", "DataResize", "DataGrowUp", "FigureRemove"}
          => \A N \in CacheIds : hist.wr[N] = {}
    /\ hist.op = "DataRangeCacheFetch"
          => (hist.ret \in CacheIds => hist.wr[hist.ret] = {})

(* C25: from exactly two visible figures A and B the first                 *)
(* plotFigureSubtractSwitch leaves one new figure R visible and A and B     *)
(* hidden, with a slot more; the second leaves A and B visible and R        *)
(* hidden; the third leaves R visible again, and the busy figures and the   *)
(* busy slots are those left by the first.                                 *)
C25_SwitchToggles ==
    LET r == hist.ref
    IN  (Len(r) >= 2 /\ Cardinality(r[1].vis) = 2) =>
            /\ \E R \in r[2].busy \ r[1].busy : r[2].vis = {R}
            /\ r[2].sub # r[1].sub /\ r[1].sub \subseteq r[2].sub
            /\ Len(r) >= 3 => r[3].vis = r[1].vis
            /\ Len(r) >= 4 => /\ r[4].vis = r[2].vis
                              /\ r[4].busy = r[2].busy
                              /\ r[4].sub = r[2].sub

(* the busy figures a scheduling step finds unfinished *)
Waiting(p) ==
    {N \in FigureIds : p.figure[N].busy # 0 /\ p.draw[N].sketch # "FINISHED"}

(* f comes before g in the paint order: hidden figures first, then by index *)
PaintBefore(p, f, g) ==
    IF (p.figure[f].hidden # 0) = (p.figure[g].hidden # 0) THEN f < g
    ELSE p.figure[f].hidden # 0

(* the figure a scheduling step on p hands to plotDrawFigureTrial is right *)
PickedRight(p, f) ==
    IF Waiting(p) = {} THEN f = -1
    ELSE /\ f \in Waiting(p)
         /\ \A g \in Waiting(p) \ {f} :
               \/ p.draw[f].id_N < p.draw[g].id_N
               \/ p.draw[f].id_N = p.draw[g].id_N /\ PaintBefore(p, f, g)

(* C26: the scheduling step that plotDrawFigureTrialAll makes next, in     *)
(* every state it can be called or has been cut in, hands over a busy       *)
(* unfinished figure with the least cursor id_N, the first of them in       *)
(* paint order (hidden figures first, then by index); and every call made   *)
(* one step at least: the figure picked first has moved, or with no figure  *)
(* waiting the frame has ended.                                            *)
C26_MinimalCursorFirst ==
    /\ PickedRight(TrialAllInit(PL, FIGS(PL)),
                   TrialAllPick(TrialAllInit(PL, FIGS(PL)), FIGS(PL), 1, -1))
    /\ hist.op = "Draw" =>
          LET q == TrialAllInit(hist.arg, FIGS(hist.arg))
              f == TrialAllPick(q, FIGS(q), 1, -1)
          IN  IF f = -1 THEN draw_in_progress = 0
              ELSE draw[f] # q.draw[f]

(* C26 witness: a call was cut with two figures waiting on the same cursor *)
(* id_N, the one of the higher index hidden and the other not.             *)
C26_Witness ==
    /\ hist.op = "Draw" /\ draw_in_progress # 0
    /\ Waiting(PL) = {0, 1}
    /\ draw[0].id_N = draw[1].id_N /\ draw[0].id_N > 0
    /\ figure[1].hidden # 0 /\ figure[0].hidden = 0

(* the moves of draw[f].sketch that the state machine admits *)
SketchMoves ==
    {<<"FINISHED", "STARTED">>, <<"STARTED", "INTERRUPTED">>,
     <<"STARTED", "FINISHED">>, <<"INTERRUPTED", "INTERRUPTED">>,
     <<"INTERRUPTED", "FINISHED">>}

(* the moves a figure may make from the frame start of a call to its end *)
SketchRuns ==
    SketchMoves \cup {<<"STARTED", "STARTED">>, <<"FINISHED", "FINISHED">>}

(* C27: every operation moves draw[f].sketch of every figure along         *)
(* FINISHED -> STARTED, STARTED -> INTERRUPTED or FINISHED, INTERRUPTED ->   *)
(* INTERRUPTED or FINISHED, or leaves it; in a call of                      *)
(* plotDrawFigureTrialAll this holds of the frame start and of the steps    *)
(* after it.                                                               *)
C27_SketchMachine ==
    \A fN \in FigureIds :
        IF hist.op = "Draw"
        THEN LET q == TrialAllInit(hist.arg, FIGS(hist.arg))
             IN  /\ \/ q.draw[fN].sketch = hist.arg.draw[fN].sketch
                    \/ <<hist.arg.draw[fN].sketch, q.draw[fN].sketch>>
                          \in SketchMoves
                 /\ <<q.draw[fN].sketch, draw[fN].sketch>> \in SketchRuns
        ELSE hist.op # "none" =>
                \/ draw[fN].sketch = hist.arg.draw[fN].sketch
                \/ <<hist.arg.draw[fN].sketch, draw[fN].sketch>> \in SketchMoves

(* C28: sub_N is a ring index between head_N and tail_N in ring order;     *)
(* plotDataSubtract(dN, -1) leaves it at tail_N, an insert that evicts      *)
(* nothing leaves it alone, and an insert that evicts the row at sub_N      *)
(* moves it to the new head_N (any other evicting insert leaves it alone).  *)
C28_WatermarkInSpan ==
    LET d == data[0]
    IN  /\ d.length_N > 0 =>
              (d.sub_N - d.head_N + d.length_N) % d.length_N <= LiveCount(d)
        /\ hist.op = "DataSubtract" => d.sub_N = d.tail_N
        /\ hist.op = "DataInsert" =>
              IF d.head_N # hist.arg.head_N /\ hist.arg.sub_N = hist.arg.head_N
              THEN d.sub_N = d.head_N
              ELSE d.sub_N = hist.arg.sub_N

(* C28 witness: the ring was full with the watermark on its oldest row,    *)
(* behind rows not yet passed, and the insert evicted that row.            *)
C28_Witness ==
    /\ hist.op = "DataInsert"
    /\ data[0].head_N # hist.arg.head_N
    /\ hist.arg.sub_N = hist.arg.head_N
    /\ data[0].sub_N = data[0].head_N
    /\ data[0].sub[0].busy # "FREE"
    /\ data[0].id_N >= 2

(* C29: no busy slot sN of a dataset has its own column column_N + sN      *)
(* among the columns it is computed from.                                  *)
C29_NoSlotReadsItself ==
    \A dN \in DataIds, sN \in SubIds :
        data[dN].column_N # 0 =>
            (data[dN].column_N + sN) \notin SlotInputs(data[dN].sub[sN])

(* C30: under compression no chunk is both in the cache and compressed,    *)
(* every chunk with raw[k] != NULL is owned by exactly one cache node with *)
(* chunk_N = k, and at most PLOT_CHUNK_CACHE chunks have raw[k] != NULL.   *)
ChunkOwners(z, k) ==
    {N \in NodeIds : z.cache[N].raw # 0 /\ z.cache[N].chunk_N = k /\ z.raw[k] = N}

C30_CachedOrCompressed ==
    lz4.lz4_compress # 0 =>
        /\ \A k \in ChunkIds : ~(lz4.raw[k] # -1 /\ lz4.compress[k] # 0)
        /\ \A k \in ChunkIds :
              lz4.raw[k] # -1 => Cardinality(ChunkOwners(lz4, k)) = 1
        /\ Cardinality({k \in ChunkIds : lz4.raw[k] # -1}) <= PLOT_CHUNK_CACHE

(* C30, as the code has it: every chunk with raw[k] != NULL is owned by    *)
(* exactly one cache node with chunk_N = k and at most PLOT_CHUNK_CACHE    *)
(* chunks have raw[k] != NULL; a chunk read back keeps compress[k].raw.    *)
C30_CachedOwned ==
    lz4.lz4_compress # 0 =>
        /\ \A k \in ChunkIds :
              lz4.raw[k] # -1 => Cardinality(ChunkOwners(lz4, k)) = 1
        /\ Cardinality({k \in ChunkIds : lz4.raw[k] # -1}) <= PLOT_CHUNK_CACHE

C30_Witness ==
    /\ hist.op = "DataGet"
    /\ \E k \in ChunkIds : lz4.raw[k] # -1 /\ lz4.compress[k] # 0
    /\ \E k \in ChunkIds : lz4.raw[k] = -1 /\ lz4.compress[k] # 0

(* C31: after plotDataAlloc and after plotDataResize length_N is a whole   *)
(* multiple of the rows of a chunk.                                        *)
C31_LengthWholeChunks ==
    (hist.op \in {"DataAlloc", "DataResize"} /\ data[0].column_N # 0) =>
        data[0].length_N % Pow2(data[0].chunk_SHIFT) = 0

(* C31, as the code has it: length_N is the length asked for when all its  *)
(* chunks are there and it fits PLOT_CHUNK_MAX chunks; otherwise it is a   *)
(* shorter whole number of chunks.                                         *)
C31_LengthAsAsked ==
    (hist.op \in {"DataAlloc", "DataResize", "DataGrowUp"}
            /\ data[0].column_N # 0) =>
        LET d  == data[0]
            lN == hist.out[1]
        IN  IF lN <= MaxRows /\ \A k \in ChunkIds :
                                   k < ChunkCount(d, lN) => d.raw[k]
            THEN d.length_N = lN
            ELSE /\ d.length_N < lN
                 /\ d.length_N % Pow2(d.chunk_SHIFT) = 0

C31_Witness ==
    /\ hist.op = "DataResize"
    /\ data[0].length_N = MaxLen - 1
    /\ data[0].length_N % Pow2(data[0].chunk_SHIFT) # 0

(* C39: a plotDataResize to a longer length and plotDataGrowUp leave the   *)
(* live rows, their values and their logical ids as they were.             *)
LiveVals(d) == [i \in 1..LiveCount(d) |-> d.rows[LiveIndex(d, i - 1)].val]

C39_GrowKeepsRows ==
    (hist.op \in {"DataResize", "DataGrowUp"}
            /\ hist.out[1] > hist.arg.length_N) =>
        /\ LiveOrds(data[0]) = LiveOrds(hist.arg)
        /\ LiveVals(data[0]) = LiveVals(hist.arg)
        /\ data[0].id_N = hist.arg.id_N

(* C32: for a figure whose Y axis is a slave of base b the filter handed   *)
(* to the fit has scale_Y = sY * sB and offset_Y = oY * sB + oB.           *)
C32_PolifitComposesY ==
    hist.op = "Polifit" =>
        LET ax == hist.ref[1]
            aY == ax[figure[hist.arg].axis_Y]
            b  == ax[aY.slave_N]
        IN  aY.slave # 0 =>
                /\ hist.out[1].scale_Y = FMulAdd(aY.scale, b.scale, 0)
                /\ hist.out[1].offset_Y = FMulAdd(aY.offset, b.scale, b.offset)

(* C33: every sketch index is in exactly one of the lists garbage,         *)
(* current and todraw; each list ends with -1 without a cycle;             *)
(* sketch_list_current_end is the last node of current, or -1 when current *)
(* is empty; every draw[f].list_self >= 0 is a node of current with        *)
(* figure_N = f.                                                           *)
RECURSIVE ListWalk(_, _, _)
ListWalk(pl, hN, n) ==
    IF hN < 0 \/ n = 0 THEN <<>>
    ELSE <<hN>> \o ListWalk(pl, pl.sketch[hN].linked, n - 1)

ListNodes(pl, hN) == ListWalk(pl, hN, PLOT_SKETCH_MAX + 1)

ListSet(w) == {w[i] : i \in 1..Len(w)}

C33_SketchPoolPartition ==
    LET G == ListNodes(PL, sketch_list_garbage)
        C == ListNodes(PL, sketch_list_current)
        T == ListNodes(PL, sketch_list_todraw)
    IN  /\ Len(G) + Len(C) + Len(T) = PLOT_SKETCH_MAX
        /\ ListSet(G) \cup ListSet(C) \cup ListSet(T) = SketchIds
        /\ sketch_list_current_end = IF C = <<>> THEN -1 ELSE C[Len(C)]
        /\ \A fN \in FigureIds :
              draw[fN].list_self >= 0 =>
                  /\ draw[fN].list_self \in ListSet(C)
                  /\ sketch[draw[fN].list_self].figure_N = fN

(* C33 witness: in a frame in progress the pool is exhausted, a figure has *)
(* lost its chunk, and the current and todraw lists both hold chunks.      *)
C33_Witness ==
    /\ draw_in_progress # 0
    /\ sketch_list_garbage = -1
    /\ sketch_list_current >= 0
    /\ sketch_list_todraw >= 0
    /\ \E fN \in FigureIds : figure[fN].busy # 0 /\ draw[fN].list_self = -1
                             /\ draw[fN].sketch # "FINISHED"

(* C34: with datasets, figures and axes left alone every step of           *)
(* plotDrawFigureTrial finishes its figure or moves its cursor id_N        *)
(* forward, and repeated calls of plotDrawFigureTrialAll lead from a frame *)
(* in progress to a state with every busy figure SKETCH_FINISHED and       *)
(* draw_in_progress = 0.                                                   *)
StepAdvances(pl) ==
    \A fN \in Unfinished(pl) :
        \/ TrialEnd(pl, fN).end = "FINISHED"
        \/ /\ TrialEnd(pl, fN).end = "INTERRUPTED"
           /\ TrialEnd(pl, fN).id_N > pl.draw[fN].id_N

EveryStepAdvances ==
    IF draw_in_progress # 0 THEN StepAdvances(PL)
    ELSE StepAdvances(TrialAllStart(PL, FIGS(PL), 1))

FrameDone == draw_in_progress = 0 /\ Unfinished(PL) = {}

C34_DrawingTerminates ==
    /\ []EveryStepAdvances
    /\ (draw_in_progress # 0) ~> FrameDone

(* C34 witness: a frame that took LiveCuts calls or more has ended, on a   *)
(* dataset whose tail_N is at a chunk boundary in a chunk that is culled,  *)
(* with the sketch pool used up.                                           *)
C34_Witness ==
    /\ hist.op = "Draw" /\ FrameDone /\ hist.cuts >= LiveCuts
    /\ data[0].tail_N % Pow2(data[0].chunk_SHIFT) = 0
    /\ \E N \in CacheIds :
          /\ rcache[N].busy # 0
          /\ TrialCulledY(rcache[N].chunk[plotDataChunkN(data[0], data[0].tail_N)],
                          TrialScaleY(PL, figure[0]).scale,
                          TrialScaleY(PL, figure[0]).offset)
    /\ sketch_list_garbage = -1

(* C35: every busy slot s takes its inputs only from raw columns or from   *)
(* the columns of busy slots with an index below s.                        *)
C35_InputsPrecede ==
    \A dN \in DataIds, sN \in SubIds :
        data[dN].column_N # 0 =>
            \A cN \in SlotInputs(data[dN].sub[sN]) :
                \/ cN < data[dN].column_N
                \/ /\ cN - data[dN].column_N < sN
                   /\ data[dN].sub[cN - data[dN].column_N].busy # "FREE"

(* the points of figure fN in the list to draw, in order *)
RECURSIVE TodrawPoints(_, _)
TodrawPoints(list, fN) ==
    IF list = <<>> THEN <<>>
    ELSE (IF Head(list).figure_N = fN THEN Head(list).points ELSE <<>>)
         \o TodrawPoints(Tail(list), fN)

(* C36: a finished frame of a LINE or DASH figure that started with the    *)
(* whole sketch pool free and whose segments fit the pool holds exactly    *)
(* the segments of the unculled pass over the same rows.                   *)
C36_CullingLossless ==
    (/\ hist.op = "Draw"
     /\ draw_in_progress = 0
     /\ hist.kept
     /\ Len(hist.ref) * 2 <= PLOT_SKETCH_MAX * PLOT_SKETCH_CHUNK_SIZE)
        => TodrawPoints(SketchTodraw(PL), 0) = hist.ref

(* C37: a call of plotDrawFigureTrialAll that leaves the frame in progress *)
(* leaves the todraw list as it found it (the same chunks in the same      *)
(* order, each with its figure, drawing, width and points) and puts into   *)
(* the current list only chunks it found in the garbage list.              *)
C37_TodrawFrozen ==
    (hist.op = "Draw" /\ draw_in_progress # 0) =>
        /\ ListNodes(PL, sketch_list_todraw)
              = ListNodes(hist.arg, hist.arg.sketch_list_todraw)
        /\ \A hN \in ListSet(ListNodes(PL, sketch_list_todraw)) :
              sketch[hN] = hist.arg.sketch[hN]
        /\ ListSet(ListNodes(PL, sketch_list_current))
              \ ListSet(ListNodes(hist.arg, hist.arg.sketch_list_current))
              \subseteq ListSet(ListNodes(hist.arg,
                                          hist.arg.sketch_list_garbage))

(* C37 witness: a call that found a frame in progress, a todraw list with  *)
(* chunks and a free chunk used up the pool: the garbage list is empty and *)
(* a busy figure is left without a chunk.                                  *)
C37_Witness ==
    /\ hist.op = "Draw" /\ draw_in_progress # 0
    /\ hist.arg.draw_in_progress # 0
    /\ sketch_list_todraw >= 0
    /\ hist.arg.sketch_list_garbage >= 0
    /\ sketch_list_garbage = -1
    /\ \E fN \in FigureIds : figure[fN].busy # 0 /\ draw[fN].list_self = -1

(* C38: in the todraw list a finished frame leaves, the chunks of one      *)
(* figure are next to each other and no chunk with points of a shown       *)
(* figure comes before a chunk with points of a hidden figure.             *)
C38_PaintOrder ==
    (hist.op = "Draw" /\ draw_in_progress = 0) =>
        \A i, j \in 1..Len(SketchTodraw(PL)) :
            i < j =>
                /\ SketchTodraw(PL)[i].figure_N = SketchTodraw(PL)[j].figure_N
                      => \A k \in i..j : SketchTodraw(PL)[k].figure_N
                                            = SketchTodraw(PL)[i].figure_N
                /\ ~(/\ figure[SketchTodraw(PL)[i].figure_N].hidden = 0
                     /\ SketchTodraw(PL)[i].points # <<>>
                     /\ figure[SketchTodraw(PL)[j].figure_N].hidden # 0
                     /\ SketchTodraw(PL)[j].points # <<>>)

============================================================================
